---- MODULE Spec2Model ----
(***************************************************************************)
(* Model of the delhicare classification and deduplication pipeline:       *)
(*   pipeline/04a_normalise.py  stage 1 filter                              *)
(*   pipeline/04b_normalise.py  stage 2: LLM classification (pass 1),      *)
(*                              automated review (pass 2), deduplication   *)
(*                              (pass 3a domain+city, pass 3b name+city).  *)
(*                                                                         *)
(* Texts (names, crawl content, host names) are sequences of tokens; a     *)
(* token is a word or a punctuation mark, and tokens stand separated by    *)
(* blanks.  A regular expression of the source is modelled by the set of   *)
(* tokens of the vocabulary it matches.                                    *)
(*                                                                         *)
(* Coordinates are offsets in metres (north, east) from a reference point  *)
(* of the city; the absolute latitude and longitude of every place are     *)
(* non-zero, so that the truth test "lat and lng" of the source fails      *)
(* exactly for a missing (None) coordinate.                                *)
(***************************************************************************)
EXTENDS Integers, Sequences, FiniteSets, TLC

None == "None"

\* A text or list field that the input gives as null (json null, Python
\* None): no text and no list of the inputs is this one.
Null == << None >>

\* ---------------------------------------------------------------- helpers

Range(s) == { s[k] : k \in 1..Len(s) }

\* All the orders in which the elements of a set can be enumerated: the
\* iteration order of a Python set of strings is an arbitrary one of these
\* (string hashing is randomised per process).
RECURSIVE Orders(_)
Orders(S) ==
    IF S = {} THEN { <<>> }
    ELSE UNION { { <<x>> \o o : o \in Orders(S \ {x}) } : x \in S }

\* ------------------------------------------------------------ text model

Punctuation == { "-", "&", ".", "," }

\* Words written in Devanagari: they hold no ASCII letter and no digit.
NonAsciiWords == { "asha_hi", "seva_hi", "kendra_hi" }

\* str.lower() on one token.
LowerTok(t) ==
    CASE t = "Asha"     -> "asha"
      [] t = "ASHA"     -> "asha"
      [] t = "Home"     -> "home"
      [] t = "Seva"     -> "seva"
      [] t = "City"     -> "city"
      [] t = "Hospital" -> "hospital"
      [] t = "Manpower" -> "manpower"
      [] t = "ABCclinic" -> "abcclinic"
      [] t = "WWW"      -> "www"
      [] t = "Nursing"  -> "nursing"
      [] t = "Physio"   -> "physio"
      [] t = "Clinic"   -> "clinic"
      [] t = "Rehab"    -> "rehab"
      [] t = "Neuro"    -> "neuro"
      [] t = "Foundation" -> "foundation"
      [] t = "Luxury"   -> "luxury"
      [] t = "Rehabilitation" -> "rehabilitation"
      [] t = "Centre"   -> "centre"
      [] t = "Health"   -> "health"
      [] t = "Pride"    -> "pride"
      [] t = "Care"     -> "care"
      [] t = "Elder"    -> "elder"
      [] t = "MRI"      -> "mri"
      [] t = "Wheelchair" -> "wheelchair"
      [] OTHER          -> t

\* str.lower() on a text.
Lower(text) == [ k \in 1..Len(text) |-> LowerTok(text[k]) ]

IsAlnumTok(t) == t \notin Punctuation \cup NonAsciiWords

\* The normalisation without lower().
NormName_NoLower(name) == SelectSeq(name, IsAlnumTok)

\* re.sub(r"[^a-z0-9]", "", name.lower()): the lower-cased name with every
\* character outside a-z0-9 (blanks and punctuation) removed.
NormName(name) == SelectSeq(Lower(name), IsAlnumTok)

\* re.search of a one-word pattern, given as the set of tokens it matches.
Search(words, text) == \E k \in 1..Len(text) : text[k] \in words

\* re.search of a pattern "first" or "first.*then": some token matches
\* first and, when then is given, a later token matches then.
SearchPat(pat, text) ==
    \E k \in 1..Len(text) :
        /\ text[k] \in pat.first
        /\ \/ pat.then = {}
           \/ \E j \in (k + 1)..Len(text) : text[j] \in pat.then

\* ------------------------------------------- stage 1 (04a_normalise.py)

\* HARD_EXCLUDE_PATTERNS, in source order (the patterns the vocabulary
\* reaches), each with the tokens it matches.
HARD_EXCLUDE_PATTERNS ==
    << [ pat |-> "hospital", first |-> { "hospital" }, then |-> {} ],
       [ pat |-> "alcohol",  first |-> { "alcohol" },  then |-> {} ],
       [ pat |-> "dental",   first |-> { "dental", "dentist" }, then |-> {} ] >>

\* POSITIVE_KEYWORDS: the tokens that contain one of the keywords.
POSITIVE_KEYWORDS ==
    { "nursing", "elder", "rehab", "rehabilitation", "palliative", "hospice", "senior" }

\* SOFT_EXCLUDE_PATTERNS, in source order: (negative pattern, override);
\* haspos is FALSE for an override of None.
SOFT_EXCLUDE_PATTERNS ==
    << [ pat |-> "physio", first |-> { "physio", "physiotherapy" }, then |-> {},
         haspos |-> TRUE,
         pos |-> { "rehab", "rehabilitation", "nursing", "stroke", "neuro", "paralysis",
                   "spinal", "post" } ],
       [ pat |-> "foundation", first |-> { "foundation" }, then |-> {},
         haspos |-> TRUE, pos |-> POSITIVE_KEYWORDS ],
       [ pat |-> "clinic", first |-> { "clinic" }, then |-> {},
         haspos |-> TRUE,
         pos |-> { "nursing", "elder", "rehab", "rehabilitation", "palliative", "hospice",
                   "physio", "physiotherapy", "neuro", "stroke" } ],
       [ pat |-> "luxury.*rehab", first |-> { "luxury" },
         then |-> { "rehab", "rehabilitation" },
         haspos |-> FALSE, pos |-> {} ] >>

KEEP_PRIMARY_TYPES == { "health", "medical_clinic", "service", "medical_center", "" }

HEALTHCARE_PRIMARY_TYPES == { "health", "medical_clinic", "medical_center" }

EXCLUDE_SUBTYPES == { "store", "gym", "hotel", "pharmacy", "school" }

\* The hard patterns with the positive keywords as an override.
RECURSIVE FirstHard_Overridable(_, _)
FirstHard_Overridable(name_lower, k) ==
    IF k > Len(HARD_EXCLUDE_PATTERNS) THEN 0
    ELSE IF /\ SearchPat(HARD_EXCLUDE_PATTERNS[k], name_lower)
            /\ ~Search(POSITIVE_KEYWORDS, name_lower)
    THEN k
    ELSE FirstHard_Overridable(name_lower, k + 1)

\* The index of the first hard pattern from k on that matches, 0 if none.
RECURSIVE FirstHard(_, _)
FirstHard(name_lower, k) ==
    IF k > Len(HARD_EXCLUDE_PATTERNS) THEN 0
    ELSE IF SearchPat(HARD_EXCLUDE_PATTERNS[k], name_lower) THEN k
    ELSE FirstHard(name_lower, k + 1)

SoftExcludes(p, name_lower) ==
    /\ SearchPat(p, name_lower)
    /\ \/ ~p.haspos
       \/ ~Search(p.pos, name_lower)

\* The soft loop left at the first pair whose negative pattern matches,
\* excluding or not.
RECURSIVE FirstSoft_StopAtRescue(_, _)
FirstSoft_StopAtRescue(name_lower, k) ==
    IF k > Len(SOFT_EXCLUDE_PATTERNS) THEN 0
    ELSE IF SearchPat(SOFT_EXCLUDE_PATTERNS[k], name_lower)
    THEN (IF SoftExcludes(SOFT_EXCLUDE_PATTERNS[k], name_lower) THEN k ELSE 0)
    ELSE FirstSoft_StopAtRescue(name_lower, k + 1)

RECURSIVE FirstSoft(_, _)
FirstSoft(name_lower, k) ==
    IF k > Len(SOFT_EXCLUDE_PATTERNS) THEN 0
    ELSE IF SoftExcludes(SOFT_EXCLUDE_PATTERNS[k], name_lower) THEN k
    ELSE FirstSoft(name_lower, k + 1)

\* check_stage1a: the matched pattern, or None.
check_stage1a(name_lower) ==
    LET h == FirstHard(name_lower, 1)
        s == FirstSoft(name_lower, 1)
    IN  IF h # 0 THEN HARD_EXCLUDE_PATTERNS[h].pat
        ELSE IF s # 0 THEN SOFT_EXCLUDE_PATTERNS[s].pat
        ELSE None

\* The whitelist without the empty primary type.
check_stage1b_NoEmpty(primary_type) == primary_type \notin KEEP_PRIMARY_TYPES \ { "" }

\* check_stage1b: TRUE if excluded by primary type.
check_stage1b(primary_type) == primary_type \notin KEEP_PRIMARY_TYPES

\* check_stage1c: the first bad sub-type in list order, or None.
RECURSIVE check_stage1c_from(_, _)
check_stage1c_from(types, k) ==
    IF k > Len(types) THEN None
    ELSE IF types[k] \in EXCLUDE_SUBTYPES THEN types[k]
    ELSE check_stage1c_from(types, k + 1)

\* The last bad sub-type of the list instead of the first.
check_stage1c_Last(types) ==
    LET bad == SelectSeq(types, LAMBDA t : t \in EXCLUDE_SUBTYPES)
    IN  IF bad = <<>> THEN None ELSE bad[Len(bad)]

check_stage1c(types) == check_stage1c_from(types, 1)

\* place.get(key, default) or default: a missing (None) text field reads
\* as the default.
OrElse(v, default) == IF v = None THEN default ELSE v

\* The filter loop with the primary-type whitelist before the name
\* patterns.
Stage1Verdict_TypeFirst(place) ==
    LET name_lower      == Lower(place.name)
        primary_type    == OrElse(place.primary_type, "")
        types           == place.types
        business_status == OrElse(place.business_status, "OPERATIONAL")
        matched_pattern == check_stage1a(name_lower)
        bad_subtype     == check_stage1c(types)
    IN  IF business_status \notin { "OPERATIONAL", "" }
        THEN [ stage |-> "status", rule |-> business_status ]
        ELSE IF check_stage1b(primary_type)
        THEN [ stage |-> "1b", rule |-> primary_type ]
        ELSE IF matched_pattern # None
        THEN [ stage |-> "1a", rule |-> matched_pattern ]
        ELSE IF primary_type \notin HEALTHCARE_PRIMARY_TYPES /\ bad_subtype # None
        THEN [ stage |-> "1c", rule |-> bad_subtype ]
        ELSE [ stage |-> "keep", rule |-> None ]

\* The body of the filter loop of main() for one place: the pass that
\* excluded it and the matched rule, or stage "keep".
Stage1Verdict(place) ==
    LET name_lower      == Lower(place.name)
        primary_type    == OrElse(place.primary_type, "")
        types           == place.types
        business_status == OrElse(place.business_status, "OPERATIONAL")
        matched_pattern == check_stage1a(name_lower)
        bad_subtype     == check_stage1c(types)
    IN  IF business_status \notin { "OPERATIONAL", "" }
        THEN [ stage |-> "status", rule |-> business_status ]
        ELSE IF matched_pattern # None
        THEN [ stage |-> "1a", rule |-> matched_pattern ]
        ELSE IF check_stage1b(primary_type)
        THEN [ stage |-> "1b", rule |-> primary_type ]
        ELSE IF primary_type \notin HEALTHCARE_PRIMARY_TYPES /\ bad_subtype # None
        THEN [ stage |-> "1c", rule |-> bad_subtype ]
        ELSE [ stage |-> "keep", rule |-> None ]

\* Where the body of the filter loop raises: name.lower() on a null name
\* (line 374), and the loop of check_stage1c over null types (line 343),
\* which a place reaches when no earlier pass excluded it and its primary
\* type is not a healthcare one.
Stage1Raises(place) ==
    \/ place.name = Null
    \/ /\ place.types = Null
       /\ LET primary_type == OrElse(place.primary_type, "")
          IN  /\ OrElse(place.business_status, "OPERATIONAL") \in { "OPERATIONAL", "" }
              /\ check_stage1a(Lower(place.name)) = None
              /\ ~check_stage1b(primary_type)
              /\ primary_type \notin HEALTHCARE_PRIMARY_TYPES

\* collections.Counter over the values of keys: value -> how many.
Counter(keys) ==
    [ k \in { keys[x] : x \in DOMAIN keys } |->
        Cardinality({ x \in DOMAIN keys : keys[x] = k }) ]

\* The counter of the rules of one stage over the verdicts of the places.
ReasonsOf(verdicts, stage) ==
    LET hit == { pid \in DOMAIN verdicts : verdicts[pid].stage = stage }
    IN  Counter([ pid \in hit |-> verdicts[pid].rule ])

\* ------------------------------------ stage 2 (04b_normalise.py), pass 1, 2

CATEGORIES ==
    << "Nursing Homes", "Elder Care", "Post-Hospital Care", "Home Health Care", "Other" >>

ActiveCategories == Range(CATEGORIES) \ { "Other" }

Pat(name, first, then) == [ pat |-> name, first |-> first, then |-> then ]

addiction_patterns ==
    << Pat("addict", { "addict", "deaddict" }, {}),
       Pat("detox", { "detox", "sober", "sobriety" }, {}),
       Pat("alcohol.*rehab", { "alcohol" }, { "rehab", "recovery", "treatment" }) >>

psych_patterns ==
    << Pat("psychiatr", { "psychiatric", "psychiatry" }, {}),
       Pat("psychological", { "psychological" }, {}) >>

\* post_hospital_signals of the psychiatric rule.
post_hospital_signals ==
    << Pat("stroke", { "stroke" }, {}),
       Pat("paralysis", { "paralysis" }, {}),
       Pat("dementia", { "dementia" }, {}),
       Pat("palliative", { "palliative" }, {}),
       Pat("hospice", { "hospice" }, {}),
       Pat("icu", { "icu" }, {}) >>

\* The signal list of the pure-physio rule: the same and two more.
physio_post_hospital_signals ==
    post_hospital_signals \o
    << Pat("spinal cord", { "spinal cord" }, {}),
       Pat("traumatic brain", { "traumatic brain" }, {}) >>

child_patterns ==
    << Pat("child.*rehab", { "child" }, { "rehab", "rehabilitation" }) >>

lab_patterns ==
    << Pat("diagnostic", { "diagnostic" }, {}),
       Pat("ultrasound", { "ultrasound" }, {}),
       Pat("mri", { "mri" }, {}) >>

physio_only_name ==
    << Pat("physio", { "physio", "physiotherapy" }, {}),
       Pat("chiro", { "chiro", "chiropractic" }, {}) >>

staffing_patterns ==
    << Pat("staffing", { "staffing" }, {}),
       Pat("manpower", { "manpower" }, {}),
       Pat("recruitment", { "recruitment" }, {}) >>

equip_patterns ==
    << Pat("wheelchair", { "wheelchair" }, {}) >>

\* The index of the first pattern of pats that matches text, 0 if none.
RECURSIVE FirstMatchFrom(_, _, _)
FirstMatchFrom(pats, text, k) ==
    IF k > Len(pats) THEN 0
    ELSE IF SearchPat(pats[k], text) THEN k
    ELSE FirstMatchFrom(pats, text, k + 1)

FirstMatch(pats, text) == FirstMatchFrom(pats, text, 1)

AnyMatch(pats, text) == FirstMatch(pats, text) # 0

\* A review result that never carries a reason.
Review_NoReason(category, corrected, rule, pat) ==
    [ category |-> category, corrected |-> corrected, reason |-> <<>> ]

Review(category, corrected, rule, pat) ==
    [ category |-> category, corrected |-> corrected,
      reason |-> IF corrected THEN << rule, pat >> ELSE <<>> ]

\* The review with the staffing rule before the others.
post_llm_review_StaffingFirst(name, content, llm_category) ==
    LET name_lower == Lower(name)
        combined   == name_lower \o Lower(content)
        phc        == llm_category = "Post-Hospital Care"
        active     == llm_category # "Other"
        addiction  == FirstMatch(addiction_patterns, combined)
        has_psych  == AnyMatch(psych_patterns, combined)
        has_post_hospital == AnyMatch(post_hospital_signals, combined)
        child      == FirstMatch(child_patterns, combined)
        lab        == FirstMatch(lab_patterns, name_lower)
        has_physio_name == AnyMatch(physio_only_name, name_lower)
        has_post_hospital2 == AnyMatch(physio_post_hospital_signals, combined)
        staffing   == FirstMatch(staffing_patterns, combined)
        equip      == FirstMatch(equip_patterns, name_lower)
    IN  IF active /\ staffing # 0
        THEN Review("Other", TRUE, "staffing/manpower reclassified",
                    staffing_patterns[staffing].pat)
        ELSE IF phc /\ addiction # 0
        THEN Review("Other", TRUE, "addiction rehab reclassified",
                    addiction_patterns[addiction].pat)
        ELSE IF phc /\ has_psych /\ ~has_post_hospital
        THEN Review("Other", TRUE, "psychiatric rehab without post-hospital signals", None)
        ELSE IF phc /\ child # 0
        THEN Review("Other", TRUE, "children's disability rehab",
                    child_patterns[child].pat)
        ELSE IF active /\ lab # 0
        THEN Review("Other", TRUE, "diagnostic/lab reclassified", lab_patterns[lab].pat)
        ELSE IF phc /\ has_physio_name /\ ~has_post_hospital2
        THEN Review("Other", TRUE, "pure physio reclassified", None)
        ELSE IF active /\ staffing # 0
        THEN Review("Other", TRUE, "staffing/manpower reclassified",
                    staffing_patterns[staffing].pat)
        ELSE IF active /\ equip # 0
        THEN Review("Other", TRUE, "equipment/supplies reclassified",
                    equip_patterns[equip].pat)
        ELSE Review(llm_category, FALSE, None, None)

\* The review with a psychiatric rule that a genuine signal does not stop.
post_llm_review_PsychAlone(name, content, llm_category) ==
    LET name_lower == Lower(name)
        combined   == name_lower \o Lower(content)
        phc        == llm_category = "Post-Hospital Care"
        active     == llm_category # "Other"
        addiction  == FirstMatch(addiction_patterns, combined)
        has_psych  == AnyMatch(psych_patterns, combined)
        has_post_hospital == AnyMatch(post_hospital_signals, combined)
        child      == FirstMatch(child_patterns, combined)
        lab        == FirstMatch(lab_patterns, name_lower)
        has_physio_name == AnyMatch(physio_only_name, name_lower)
        has_post_hospital2 == AnyMatch(physio_post_hospital_signals, combined)
        staffing   == FirstMatch(staffing_patterns, combined)
        equip      == FirstMatch(equip_patterns, name_lower)
    IN  IF phc /\ addiction # 0
        THEN Review("Other", TRUE, "addiction rehab reclassified",
                    addiction_patterns[addiction].pat)
        ELSE IF phc /\ has_psych
        THEN Review("Other", TRUE, "psychiatric rehab without post-hospital signals", None)
        ELSE IF phc /\ child # 0
        THEN Review("Other", TRUE, "children's disability rehab",
                    child_patterns[child].pat)
        ELSE IF active /\ lab # 0
        THEN Review("Other", TRUE, "diagnostic/lab reclassified", lab_patterns[lab].pat)
        ELSE IF phc /\ has_physio_name /\ ~has_post_hospital2
        THEN Review("Other", TRUE, "pure physio reclassified", None)
        ELSE IF active /\ staffing # 0
        THEN Review("Other", TRUE, "staffing/manpower reclassified",
                    staffing_patterns[staffing].pat)
        ELSE IF active /\ equip # 0
        THEN Review("Other", TRUE, "equipment/supplies reclassified",
                    equip_patterns[equip].pat)
        ELSE Review(llm_category, FALSE, None, None)

\* The review with a pure-physio rule that a genuine signal does not stop.
post_llm_review_PhysioAlone(name, content, llm_category) ==
    LET name_lower == Lower(name)
        combined   == name_lower \o Lower(content)
        phc        == llm_category = "Post-Hospital Care"
        active     == llm_category # "Other"
        addiction  == FirstMatch(addiction_patterns, combined)
        has_psych  == AnyMatch(psych_patterns, combined)
        has_post_hospital == AnyMatch(post_hospital_signals, combined)
        child      == FirstMatch(child_patterns, combined)
        lab        == FirstMatch(lab_patterns, name_lower)
        has_physio_name == AnyMatch(physio_only_name, name_lower)
        has_post_hospital2 == AnyMatch(physio_post_hospital_signals, combined)
        staffing   == FirstMatch(staffing_patterns, combined)
        equip      == FirstMatch(equip_patterns, name_lower)
    IN  IF phc /\ addiction # 0
        THEN Review("Other", TRUE, "addiction rehab reclassified",
                    addiction_patterns[addiction].pat)
        ELSE IF phc /\ has_psych /\ ~has_post_hospital
        THEN Review("Other", TRUE, "psychiatric rehab without post-hospital signals", None)
        ELSE IF phc /\ child # 0
        THEN Review("Other", TRUE, "children's disability rehab",
                    child_patterns[child].pat)
        ELSE IF active /\ lab # 0
        THEN Review("Other", TRUE, "diagnostic/lab reclassified", lab_patterns[lab].pat)
        ELSE IF phc /\ has_physio_name
        THEN Review("Other", TRUE, "pure physio reclassified", None)
        ELSE IF active /\ staffing # 0
        THEN Review("Other", TRUE, "staffing/manpower reclassified",
                    staffing_patterns[staffing].pat)
        ELSE IF active /\ equip # 0
        THEN Review("Other", TRUE, "equipment/supplies reclassified",
                    equip_patterns[equip].pat)
        ELSE Review(llm_category, FALSE, None, None)

\* post_llm_review(name, content, llm_category, llm_reason):
\* (final_category, corrected, correction_reason).
post_llm_review(name, content, llm_category) ==
    LET name_lower == Lower(name)
        combined   == name_lower \o Lower(content)
        phc        == llm_category = "Post-Hospital Care"
        active     == llm_category # "Other"
        addiction  == FirstMatch(addiction_patterns, combined)
        has_psych  == AnyMatch(psych_patterns, combined)
        has_post_hospital == AnyMatch(post_hospital_signals, combined)
        child      == FirstMatch(child_patterns, combined)
        lab        == FirstMatch(lab_patterns, name_lower)
        has_physio_name == AnyMatch(physio_only_name, name_lower)
        has_post_hospital2 == AnyMatch(physio_post_hospital_signals, combined)
        staffing   == FirstMatch(staffing_patterns, combined)
        equip      == FirstMatch(equip_patterns, name_lower)
    IN  IF phc /\ addiction # 0
        THEN Review("Other", TRUE, "addiction rehab reclassified",
                    addiction_patterns[addiction].pat)
        ELSE IF phc /\ has_psych /\ ~has_post_hospital
        THEN Review("Other", TRUE, "psychiatric rehab without post-hospital signals", None)
        ELSE IF phc /\ child # 0
        THEN Review("Other", TRUE, "children's disability rehab",
                    child_patterns[child].pat)
        ELSE IF active /\ lab # 0
        THEN Review("Other", TRUE, "diagnostic/lab reclassified", lab_patterns[lab].pat)
        ELSE IF phc /\ has_physio_name /\ ~has_post_hospital2
        THEN Review("Other", TRUE, "pure physio reclassified", None)
        ELSE IF active /\ staffing # 0
        THEN Review("Other", TRUE, "staffing/manpower reclassified",
                    staffing_patterns[staffing].pat)
        ELSE IF active /\ equip # 0
        THEN Review("Other", TRUE, "equipment/supplies reclassified",
                    equip_patterns[equip].pat)
        ELSE Review(llm_category, FALSE, None, None)

\* A key that a JSON object does not have.
Missing == "<missing>"

\* What the external model does at one call: "raise" (the request raises
\* or times out), "text" (a reply that json.loads rejects), "list" (a
\* reply that is JSON but not an object), "object" (a JSON object with
\* the given values, Missing for a key it lacks).
Response(kind, category, confidence, reason) ==
    [ kind |-> kind, category |-> category, confidence |-> confidence,
      reason |-> reason ]

NoResponse == Response("none", None, None, None)

Responses ==
    { Response(kind, None, None, None) : kind \in { "raise", "text", "list" } }
    \cup { Response("object", c, "high", "llm")
            : c \in { "Nursing Homes", "Post-Hospital Care", "Other", "Hospital" } }
    \cup { Response("object", Missing, Missing, Missing) }

\* dict.get(key, default)
GetOr(v, default) == IF v = Missing THEN default ELSE v

\* classify_llm with every failure reported as a low-confidence answer.
classify_llm_LowOnFailure(response) ==
    IF response.kind = "object"
    THEN [ category   |-> GetOr(response.category, "Other"),
           confidence |-> GetOr(response.confidence, "low"),
           reason     |-> GetOr(response.reason, "") ]
    ELSE [ category |-> "Other", confidence |-> "low", reason |-> "" ]

\* classify_llm, lines 246-266: the three values of the parsed object,
\* with the defaults of result.get, or the result of the except branch,
\* which every exception of the request, of json.loads and of .get on a
\* value that is no dict reaches.
classify_llm(response) ==
    IF response.kind = "object"
    THEN [ category   |-> GetOr(response.category, "Other"),
           confidence |-> GetOr(response.confidence, "low"),
           reason     |-> GetOr(response.reason, "") ]
    ELSE [ category |-> "Other", confidence |-> "none", reason |-> "LLM error" ]

\* What classify_llm can return for one call.
LLMOutcomes == { classify_llm(response) : response \in Responses }

\* CacheEntry without the coercion of lines 389-390.
CacheEntry_Uncoerced(name, content, r) ==
    [ name |-> name,
      has_content |-> content # <<>>,
      llm_category |-> r.category,
      llm_confidence |-> r.confidence,
      llm_reason |-> r.reason ]

\* Lines 389-398 of main(): the cache entry made from a classify_llm result.
CacheEntry(name, content, r) ==
    [ name |-> name,
      has_content |-> content # <<>>,
      llm_category |-> IF r.category \in Range(CATEGORIES) THEN r.category ELSE "Other",
      llm_confidence |-> r.confidence,
      llm_reason |-> r.reason ]

\* ------------------------- the classifier of 01_places_normalize.py

DIRECTORY_CATEGORIES ==
    << "Nursing Homes", "Elder Care", "Post-Hospital Care", "Home Health Care" >>

\* term in name_lower, for a term of several words: the words in a row.
SearchPhrase(phrase, text) ==
    \E k \in 1..(Len(text) - Len(phrase) + 1) :
        \A j \in 1..Len(phrase) : text[k + j - 1] = phrase[j]

\* any(term in name_lower for term in [...])
AnyPhrase(phrases, text) == \E phrase \in phrases : SearchPhrase(phrase, text)

\* Lines 296-301: the terms of Nursing Homes (those the vocabulary reaches).
NursingHomeTerms == { << "nursing", "home" >>, << "nursing", "care" >> }

\* Lines 305-312
ElderCareTerms ==
    { << "elder", "care" >>, << "palliative" >>, << "hospice" >> }

\* Lines 317-326: the patterns "\bstroke\b.*(?:rehab|recovery|care|centre|
\* center)" and "\bneuro\b.*(...)"; rehab matches inside a word.
PostHospitalPatterns ==
    << Pat("stroke.*", { "stroke" },
           { "rehab", "rehabilitation", "recovery", "care", "centre", "center" }),
       Pat("neuro.*", { "neuro" },
           { "rehab", "rehabilitation", "recovery", "care", "centre", "center" }) >>

\* The words that end in "de": "rehabilitation" right after one of them
\* has "de " before it.
EndsInDe == { "pride" }

\* Line 331: re.search(r"(?<!de.)(?<!de )rehabilitation\s*(?:centre|center|
\* facility|home)", name_lower): the word rehabilitation, the next word
\* one of the four, the word before not ending in "de".
GenericRehabTerm(name_lower) ==
    \E k \in 1..(Len(name_lower) - 1) :
        /\ name_lower[k] = "rehabilitation"
        /\ name_lower[k + 1] \in { "centre", "center", "facility", "home" }
        /\ k > 1 => name_lower[k - 1] \notin EndsInDe

\* Lines 332-337: medical_context, the words of the vocabulary that
\* contain one of its entries.
medical_context ==
    { "neuro", "stroke", "spinal", "physio", "physiotherapy", "health", "nursing",
      "hospital", "paralysis" }

\* Lines 347-357
HomeHealthTerms ==
    { << "home", "health" >>, << "home", "care" >>, << "home", "nursing" >> }

generic_health_types == { "health", "service", "medical_clinic", "medical_center" }

\* How often c is in the list.
CountIn(list, c) == Cardinality({ k \in 1..Len(list) : list[k] = c })

\* Counter(categories).most_common(1)[0][0]: the first entry of the list
\* that no entry outnumbers.
MostCommon(list) ==
    LET best == CHOOSE k \in 1..Len(list) :
                  /\ \A j \in 1..Len(list) : CountIn(list, list[j]) <= CountIn(list, list[k])
                  /\ \A j \in 1..(k - 1) : CountIn(list, list[j]) < CountIn(list, list[k])
    IN  list[best]

\* The index of the first type of the list that the table has, 0 if none.
RECURSIVE FirstMapped(_, _, _)
FirstMapped(types, table, k) ==
    IF k > Len(types) THEN 0
    ELSE IF types[k] \in DOMAIN table THEN k
    ELSE FirstMapped(types, table, k + 1)

\* The search-query context trusted at a single occurrence.
SearchContext_Once(place) ==
    LET primary    == place.primary_type
        categories == place.found_via
    IN  IF /\ \/ primary \in generic_health_types
              \/ primary \in { None, "" } /\ place.types # <<>>
           /\ categories # <<>>
           /\ MostCommon(categories) \in Range(DIRECTORY_CATEGORIES)
        THEN MostCommon(categories)
        ELSE None

\* Lines 363-372: the search-query context.
SearchContext(place) ==
    LET primary    == place.primary_type
        categories == place.found_via
    IN  IF /\ \/ primary \in generic_health_types
              \/ primary \in { None, "" } /\ place.types # <<>>
           /\ categories # <<>>
           /\ MostCommon(categories) \in Range(DIRECTORY_CATEGORIES)
           /\ CountIn(categories, MostCommon(categories)) >= 2
        THEN MostCommon(categories)
        ELSE None

\* Lines 293-375: the name cascade and the search context.
NameCascade(place) ==
    LET name_lower == Lower(place.name)
    IN  IF AnyPhrase(NursingHomeTerms, name_lower) THEN "Nursing Homes"
        ELSE IF AnyPhrase(ElderCareTerms, name_lower) THEN "Elder Care"
        ELSE IF AnyMatch(PostHospitalPatterns, name_lower) THEN "Post-Hospital Care"
        ELSE IF /\ GenericRehabTerm(name_lower)
                /\ \/ Search(medical_context, name_lower)
                   \/ "rehabilitation_center" \in Range(place.types)
        THEN "Post-Hospital Care"
        ELSE IF AnyPhrase(HomeHealthTerms, name_lower) THEN "Home Health Care"
        ELSE SearchContext(place)

\* The name cascade before the type table.
classify_category_NameFirst(place, table) ==
    LET m == FirstMapped(place.types, table, 1)
        named == NameCascade(place)
    IN  IF named # None THEN named
        ELSE IF m # 0 THEN table[place.types[m]]
        ELSE IF place.primary_type \in DOMAIN table THEN table[place.primary_type]
        ELSE None

\* PlacesNormalizer._classify_category: the category, or None.
classify_category(place, table) ==
    LET m == FirstMapped(place.types, table, 1)
    IN  IF m # 0 THEN table[place.types[m]]
        ELSE IF place.primary_type \in DOMAIN table THEN table[place.primary_type]
        ELSE NameCascade(place)

\* Where _classify_category raises: the loop over null types (line 283),
\* and lower() on a null name (line 293) when the table has no entry for
\* the primary type.
ClassifyRaises(place, table) ==
    \/ place.types = Null
    \/ /\ place.name = Null
       /\ FirstMapped(place.types, table, 1) = 0
       /\ place.primary_type \notin DOMAIN table

\* ----------------------------------------------- pass 3: deduplication

\* A missing number (None, or no such key) is the empty sequence, a
\* number v is << v >>.
NoNum == <<>>

Num(v) == << v >>

\* place.get(key, 0) or 0
OrZero(x) == IF x = NoNum THEN 0 ELSE x[1]

DEDUP_DISTANCE_M == 200

\* "if lat and lng"
HasCoords(place) == place.lat # NoNum /\ place.lng # NoNum

\* haversine_m(lat1, lon1, lat2, lon2) <= DEDUP_DISTANCE_M.  Over a few
\* hundred metres the great-circle distance is the plane distance of the
\* metre offsets; the comparison is made on the squares.
WithinDistance(a, b) ==
    (a.lat[1] - b.lat[1]) * (a.lat[1] - b.lat[1])
      + (a.lng[1] - b.lng[1]) * (a.lng[1] - b.lng[1])
    <= DEDUP_DISTANCE_M * DEDUP_DISTANCE_M

\* The distance is taken to the seed alone.
NearCluster_SeedOnly(pid, cluster, all_data) ==
    WithinDistance(all_data[pid], all_data[cluster[1]])

\* The test of lines 316-322: pid is within the distance of some member
\* of the growing cluster.
NearCluster(pid, cluster, all_data) ==
    \E k \in 1..Len(cluster) : WithinDistance(all_data[pid], all_data[cluster[k]])

\* One pass of "for pid in list(remaining)" over the snapshot order: every
\* pid near a member of the cluster as grown so far is appended.
RECURSIVE ScanFrom(_, _, _, _)
ScanFrom(cluster, order, k, all_data) ==
    IF k > Len(order) THEN cluster
    ELSE IF NearCluster(order[k], cluster, all_data)
         THEN ScanFrom(Append(cluster, order[k]), order, k + 1, all_data)
         ELSE ScanFrom(cluster, order, k + 1, all_data)

\* "while changed": the clusters the loop can end with, over the
\* iteration orders of the set remaining.
RECURSIVE GrowCluster(_, _, _)
GrowCluster(cluster, remaining, all_data) ==
    UNION { LET grown == ScanFrom(cluster, order, 1, all_data)
            IN  IF grown = cluster THEN { cluster }
                ELSE GrowCluster(grown, remaining \ Range(grown), all_data)
          : order \in Orders(remaining) }

\* "while remaining": seed = remaining.pop() is any element.
RECURSIVE GreedyClusters(_, _)
GreedyClusters(remaining, all_data) ==
    IF remaining = {} THEN { <<>> }
    ELSE UNION { UNION { { << cluster >> \o rest
                           : rest \in GreedyClusters(remaining \ Range(cluster), all_data) }
                       : cluster \in GrowCluster(<< seed >>, remaining \ { seed }, all_data) }
               : seed \in remaining }

\* The entries without coordinates are appended as one cluster.
cluster_by_proximity_Lumped(pids, all_data) ==
    LET NoCoords(pid) == ~HasCoords(all_data[pid])
        coords    == { pid \in Range(pids) : HasCoords(all_data[pid]) }
        no_coords == SelectSeq(pids, NoCoords)
    IN  { clusters \o (IF no_coords = <<>> THEN <<>> ELSE << no_coords >>)
          : clusters \in GreedyClusters(coords, all_data) }

\* cluster_by_proximity(pids, all_data): the lists of clusters it can
\* return (one per iteration order of its set).
cluster_by_proximity(pids, all_data) ==
    LET NoCoords(pid) == ~HasCoords(all_data[pid])
        coords    == { pid \in Range(pids) : HasCoords(all_data[pid]) }
        no_coords == SelectSeq(pids, NoCoords)
    IN  { clusters \o [ k \in 1..Len(no_coords) |-> << no_coords[k] >> ]
          : clusters \in GreedyClusters(coords, all_data) }

\* The score without the rating.
get_score_ReviewsOnly(place) == << OrZero(place.reviews), 0 >>

\* get_score: (reviews, rating)
get_score(place) == << OrZero(place.reviews), OrZero(place.rating) >>

\* The score compared on the rating first.
ScoreGE_RatingFirst(a, b) == a[2] > b[2] \/ (a[2] = b[2] /\ a[1] >= b[1])

\* Python's tuple order on scores: a >= b.
ScoreGE(a, b) == a[1] > b[1] \/ (a[1] = b[1] /\ a[2] >= b[2])

\* sorted(cluster, key=get_score, reverse=True): a stable sort, elements
\* of equal score keep the order they have in cluster.
RECURSIVE SortedByScore(_, _)
SortedByScore(cluster, all_data) ==
    IF cluster = <<>> THEN <<>>
    ELSE LET n      == Len(cluster)
             front  == SortedByScore(SubSeq(cluster, 1, n - 1), all_data)
             x      == cluster[n]
             ahead  == Cardinality({ k \in 1..Len(front) :
                          ScoreGE(get_score(all_data[front[k]]), get_score(all_data[x])) })
         IN  SubSeq(front, 1, ahead) \o << x >> \o SubSeq(front, ahead + 1, Len(front))

\* The first two of the sorted cluster are spared.
RemovedOf_KeepTwo(clusters, all_data) ==
    UNION { IF Len(clusters[k]) <= 2 THEN {}
            ELSE Range(Tail(Tail(SortedByScore(clusters[k], all_data))))
          : k \in 1..Len(clusters) }

\* Lines 507-512 / 528-533: of every cluster of more than one member, all
\* but the first of the sorted cluster are removed.
RemovedOf(clusters, all_data) ==
    UNION { IF Len(clusters[k]) <= 1 THEN {}
            ELSE Range(Tail(SortedByScore(clusters[k], all_data)))
          : k \in 1..Len(clusters) }

\* The clusters of more than one member (the ones the dedup loop does
\* not skip), each as the set of its members.
BigClusters(clusters) ==
    { Range(clusters[k]) : k \in { j \in 1..Len(clusters) : Len(clusters[j]) > 1 } }

\* What the loop body can do with one group: the group's pids come in
\* any order (they were appended while iterating over a set).
GroupOutcomes(group, all_data) ==
    UNION { { [ clusters |-> BigClusters(cs), removed |-> RemovedOf(cs, all_data) ]
              : cs \in cluster_by_proximity(order, all_data) }
          : order \in Orders(group) }

\* The loop over all groups of a pass: the clusters formed and the set
\* removed.  Groups of one member are skipped.
RECURSIVE PassOutcomes(_, _)
PassOutcomes(groups, all_data) ==
    IF groups = {} THEN { [ clusters |-> {}, removed |-> {} ] }
    ELSE LET g == CHOOSE g \in groups : TRUE
         IN  IF Cardinality(g) <= 1 THEN PassOutcomes(groups \ { g }, all_data)
             ELSE { [ clusters |-> a.clusters \cup b.clusters,
                      removed  |-> a.removed \cup b.removed ]
                    : a \in GroupOutcomes(g, all_data),
                      b \in PassOutcomes(groups \ { g }, all_data) }

\* urlparse(url).netloc.lower().replace("www.", ""): the host labels in
\* lower case without the www label; "" (no labels) without a website.
get_domain(place) ==
    LET NotWww(label) == label # "www"
    IN  SelectSeq(Lower(place.website), NotWww)

\* Line 478: place.get("website", "").strip() raises on a null website.
GetDomainRaises(place) == place.website = Null

\* Groups of a pass: the pids of one key, for every key that occurs.
GroupsBy(pids, key) == { { q \in pids : key[q] = key[p] } : p \in pids }

\* ------------------------------------------------------------- the state

\* The place ids, in the order of the input file (a JSON object keeps
\* its order; dict iteration follows it).
PidOrder == << "p1", "p2", "p3" >>

PIDs == Range(PidOrder)

\* How many times the pipeline is run on the same input.
MaxRuns == 2

VARIABLES
    raw_places,      \* places_search_raw.json: pid -> place
    crawl_data,      \* deep_crawl_results.json: pid -> combined page text
    stage1_filtered, \* stage1_filtered.json: the surviving pids, in order
    cache_file,      \* stage2_llm_cache.json: pid -> cache entry
    cache,           \* main(): cache
    new_calls,       \* main(): new_calls
    idx,             \* main(): position of the pass 1 loop in all_data
    results,         \* main(): results
    removed_domain,  \* main(): removed_domain
    removed_name,    \* main(): removed_name
    output_file,     \* stage2_classified.json
    pc,              \* the step the pipeline is at
    run,             \* the number of the current run
    llm_calls,       \* history: how often classify_llm was called per pid
    domain_clusters, \* history: clusters of size > 1 formed in pass 3a
    name_clusters,   \* history: clusters of size > 1 formed in pass 3b
    first_output,    \* history: stage2_classified.json after the first run
    status_excluded, \* 04a main(): status_excluded
    stage1a_reasons, \* 04a main(): stage1a_reasons, pattern -> count
    stage1b_reasons, \* 04a main(): stage1b_reasons, primary type -> count
    stage1c_reasons, \* 04a main(): stage1c_reasons, sub-type -> count
    last_response,   \* history: what the classifier did at the last call
    type_to_cat,     \* category_mapping.json: type_to_category
    assigned_category, \* 01 normalize_all(): pid -> _assigned_category
    normalizer_pc,   \* the step 00_places_search.py, then 01_places_normalize.py is at
    query_hits       \* history: pid -> the categories of the queries that returned it

vars ==
    << raw_places, crawl_data, stage1_filtered, cache_file, cache, new_calls, idx,
       results, removed_domain, removed_name, output_file, pc, run, llm_calls,
       domain_clusters, name_clusters, first_output, status_excluded,
       stage1a_reasons, stage1b_reasons, stage1c_reasons, last_response,
       type_to_cat, assigned_category, normalizer_pc, query_hits >>

\* The counters of 04a main().
stage1_counters ==
    << status_excluded, stage1a_reasons, stage1b_reasons, stage1c_reasons >>

\* The state of 01_places_normalize.py and its configuration.
normalizer == << type_to_cat, assigned_category, normalizer_pc >>

\* An empty dict / a file that does not exist.
Empty == [ pid \in {} |-> None ]

\* d[pid] = e
Put(d, pid, e) == [ q \in DOMAIN d \cup { pid } |-> IF q = pid THEN e ELSE d[q] ]

Has(d, pid) == pid \in DOMAIN d

\* all_data of 04b main(): the stage 1 output, pid -> place.
all_data == [ pid \in Range(stage1_filtered) |-> raw_places[pid] ]

\* --------------------------------------------------------- initial states

NameAsha     == << "Asha", "Home" >>
NameAshaAlt  == << "ASHA", "-", "home" >>
NameSeva     == << "Seva", "Home" >>
NameHospital == << "City", "Hospital" >>
NameManpower == << "Asha", "Manpower" >>

\* Two names written in Devanagari only.
NameHindiAsha == << "asha_hi", "kendra_hi" >>
NameHindiSeva == << "seva_hi", "kendra_hi" >>

NoSite     == << >>
SiteAbc    == << "abcclinic", "com" >>
SiteAbcWww == << "WWW", "ABCclinic", "com" >>

Cities == { "Delhi", "Gurgaon" }

\* Metre offsets of the places: 50 m, 200 m (the threshold), 250 m and
\* 300 m apart, and a chain 0 - 50 - 250 whose ends are 250 m apart.
Offsets == { 0, 50, 250, 300 }

\* (reviews, rating) as the input gives them; the rating in tenths.
Scores ==
    { << NoNum, NoNum >>, << Num(5), NoNum >>, << Num(5), Num(45) >>, << Num(40), NoNum >> }

Place(name, website, city, lat, lng, score) ==
    [ name |-> name, primary_type |-> "health", types |-> << "health" >>,
      business_status |-> "OPERATIONAL", found_via |-> <<>>,
      website |-> website, city |-> city,
      lat |-> lat, lng |-> lng, reviews |-> score[1], rating |-> score[2] ]

\* The cache entry of an earlier run that classified the place as cat.
Cached(place, cat) ==
    CacheEntry(place.name, <<>>, [ category |-> cat, confidence |-> "high", reason |-> "llm" ])

\* A place without coordinates lacks both, the latitude or the longitude.
NoPosition(pid) ==
    CASE pid = "p1" -> << NoNum, NoNum >>
      [] pid = "p2" -> << NoNum, Num(0) >>
      [] OTHER      -> << Num(0), NoNum >>

\* One key, every position and score: places of one name, domain and city.
GeoPlaces(pid) ==
    { Place(NameAsha, SiteAbc, "Delhi", pos[1], pos[2], score)
      : pos \in { NoPosition(pid) } \cup { << Num(o), Num(0) >> : o \in Offsets },
        score \in Scores }

\* The score falls from p1 to p3.
FallingScore(pid) ==
    CASE pid = "p1" -> << Num(40), NoNum >>
      [] pid = "p2" -> << Num(5), Num(45) >>
      [] OTHER      -> << Num(5), NoNum >>

\* The website of a place that has one: the same host, written with and
\* without www and capitals.
SiteOf(pid) == IF pid = "p2" THEN SiteAbcWww ELSE SiteAbc

\* p1 and p2 are 50 m apart, p3 is where p2 is.
NearPosition(pid) == IF pid = "p1" THEN Num(0) ELSE Num(50)

\* Every key, all places near each other: the names, domains and cities
\* differ.
KeyPlaces(pid) ==
    { Place(name, website, city, NearPosition(pid), Num(0), FallingScore(pid))
      : name \in { NameAsha, NameAshaAlt, NameSeva },
        website \in { NoSite, SiteOf(pid) },
        city \in Cities }

\* Nothing cached: names that stage 1 excludes or the review corrects,
\* the domain and the position shared.
FreshPlaces(pid) ==
    { Place(name, SiteOf(pid), "Delhi", NearPosition(pid), Num(0), FallingScore(pid))
      : name \in { NameAsha, NameHospital, NameManpower } }

\* --- the inputs of the stage 1 passes and of the 01 classifier

NameNursingHospital       == << "Asha", "Nursing", "Hospital" >>
NamePhysioClinic          == << "Asha", "Physio", "Clinic" >>
NamePhysioRehabClinic     == << "Asha", "Physio", "Rehab", "Clinic" >>
NameNeuroPhysioFoundation == << "Asha", "Neuro", "Physio", "Foundation" >>
NameLuxuryRehabFoundation == << "Luxury", "Rehab", "Foundation" >>
NameNursingHome           == << "Asha", "Nursing", "Home" >>
NameElderCare             == << "Asha", "Elder", "Care" >>
NameHomeCare              == << "Asha", "Home", "Care" >>
NameRehabCentre           == << "Asha", "Rehabilitation", "Centre" >>
NameHealthRehabCentre     == << "Asha", "Health", "Rehabilitation", "Centre" >>
NamePrideRehabCentre      == << "Health", "Pride", "Rehabilitation", "Centre" >>
NameNeuroRehabCentre      == << "Asha", "Neuro", "Rehabilitation", "Centre" >>

\* category_mapping.json, type_to_category: two tables, without and with
\* an entry for rehabilitation_center.
TypeTableSmall ==
    [ t \in { "nursing_home", "retirement_home" } |->
        IF t = "nursing_home" THEN "Nursing Homes" ELSE "Elder Care" ]

TypeTableRehab ==
    [ t \in { "nursing_home", "retirement_home", "rehabilitation_center" } |->
        CASE t = "nursing_home"    -> "Nursing Homes"
          [] t = "retirement_home" -> "Elder Care"
          [] OTHER                 -> "Post-Hospital Care" ]

\* A place without website, coordinates, rating and reviews.
BarePlace(name, primary_type, types, business_status, found_via) ==
    [ Place(name, NoSite, "Delhi", NoNum, NoNum, << NoNum, NoNum >>)
        EXCEPT !.primary_type = primary_type, !.types = types,
               !.business_status = business_status, !.found_via = found_via ]

\* The places the five passes of stage 1 tell apart.
Stage1Places ==
    { BarePlace(name, primary_type, types, business_status, <<>>)
      : name \in { NameAsha, NameHospital, NameNursingHospital, NamePhysioClinic,
                   NamePhysioRehabClinic, NameNeuroPhysioFoundation,
                   NameLuxuryRehabFoundation },
        primary_type \in { "health", "service", "", "doctor", None },
        types \in { <<>>, << "health" >>, << "store" >>, << "nursing_home" >>,
                    << "point_of_interest", "gym", "store" >> },
        business_status \in { "OPERATIONAL", "CLOSED_PERMANENTLY", "", None } }

\* The places the steps of _classify_category tell apart.
ClassifierPlaces ==
    { BarePlace(name, primary_type, types, "OPERATIONAL", found_via)
      : name \in { NameAsha, NameNursingHome, NameElderCare, NameHomeCare,
                   NameRehabCentre, NameHealthRehabCentre, NamePrideRehabCentre,
                   NameNeuroRehabCentre },
        primary_type \in { "health", "", "doctor", "nursing_home" },
        types \in { <<>>, << "health" >>, << "rehabilitation_center" >>,
                    << "nursing_home" >>, << "retirement_home", "nursing_home" >> },
        found_via \in { <<>>, << "Nursing Homes" >>,
                        << "Elder Care", "Nursing Homes", "Nursing Homes" >>,
                        << "Elder Care", "Nursing Homes", "Nursing Homes", "Elder Care" >> } }

\* Places with a null or missing field.
MalformedPlaces ==
    { [ BarePlace(NameAsha, "service", << "health" >>, "OPERATIONAL", <<>>)
          EXCEPT !.name = Null ],
      [ BarePlace(NameAsha, "service", << "health" >>, "OPERATIONAL", <<>>)
          EXCEPT !.types = Null ],
      [ BarePlace(NameAsha, "health", << "health" >>, "OPERATIONAL", <<>>)
          EXCEPT !.types = Null ],
      [ BarePlace(NameAsha, "health", << "health" >>, "OPERATIONAL", <<>>)
          EXCEPT !.website = Null ],
      BarePlace(<<>>, None, <<>>, None, <<>>) }

\* --- the inputs of the review

NameMriPhysioRehab     == << "Asha", "MRI", "Physio", "Rehab" >>
NameWheelchairManpower == << "Asha", "Wheelchair", "Manpower" >>
NameWheelchair         == << "Asha", "Wheelchair", "Home" >>

\* Names that stage 1 keeps and the rules of the review tell apart.
ReviewNames ==
    { NameAsha, NamePhysioRehabClinic, NameManpower, NameMriPhysioRehab,
      NameWheelchairManpower, NameWheelchair }

\* The crawled text of a website, in lower case: nothing, a genuine
\* post-hospital signal, the words of the addiction, psychiatric, child
\* and staffing rules, alone and beside a signal.
ReviewContents ==
    { <<>>, << "stroke" >>, << "detox" >>, << "detox", "stroke" >>,
      << "psychiatric" >>, << "psychiatric", "stroke" >>, << "child", "rehab" >>,
      << "spinal cord" >>, << "psychiatric", "spinal cord" >>, << "staffing" >> }

\* The two places that go with the varied one: one that a hard pattern
\* excludes and one that stage 1 keeps, a healthcare primary type with
\* a sub-type of the exclusion set.
Companion(pid) ==
    IF pid = "p2" THEN BarePlace(NameHospital, "health", << "health" >>, "OPERATIONAL", <<>>)
    ELSE BarePlace(NameSeva, "health", << "store" >>, "OPERATIONAL", <<>>)

\* The inputs in which every place pid is one of places[pid].
Inputs(places) ==
    { f \in [ PIDs -> UNION { places[pid] : pid \in PIDs } ] :
        \A pid \in PIDs : f[pid] \in places[pid] }

\* The state of 04a and 04b at a first start.
InitPipeline ==
    /\ stage1_filtered = <<>>
    /\ cache = Empty
    /\ new_calls = 0
    /\ idx = 1
    /\ results = Empty
    /\ removed_domain = {}
    /\ removed_name = {}
    /\ output_file = Empty
    /\ pc = "stage1"
    /\ run = 1
    /\ llm_calls = [ pid \in PIDs |-> 0 ]
    /\ domain_clusters = {}
    /\ name_clusters = {}
    /\ first_output = Empty
    /\ status_excluded = 0
    /\ stage1a_reasons = Empty
    /\ stage1b_reasons = Empty
    /\ stage1c_reasons = Empty
    /\ last_response = NoResponse
    /\ assigned_category = Empty

\* The state of a first start, the input files apart: the search has
\* written its file in an earlier session.
InitState ==
    /\ InitPipeline
    /\ normalizer_pc = "start"
    /\ query_hits = [ pid \in PIDs |-> <<>> ]

\* No page of any website was crawled.
InitRest ==
    /\ crawl_data = [ pid \in PIDs |-> <<>> ]
    /\ InitState

\* A resumed run: every place was classified into an active category by
\* an earlier run and is in the cache file.
InitGeo ==
    /\ raw_places \in Inputs([ pid \in PIDs |-> GeoPlaces(pid) ])
    /\ type_to_cat = TypeTableSmall
    /\ cache_file = [ pid \in PIDs |-> Cached(raw_places[pid], "Nursing Homes") ]
    /\ InitRest

InitKeys ==
    /\ raw_places \in Inputs([ pid \in PIDs |-> KeyPlaces(pid) ])
    /\ type_to_cat = TypeTableSmall
    /\ cache_file = [ pid \in PIDs |-> Cached(raw_places[pid], "Elder Care") ]
    /\ InitRest

\* Places of one city near each other, of a Latin or a Devanagari name,
\* with or without the common domain.
MixedPlaces(pid) ==
    { Place(name, website, "Delhi", NearPosition(pid), Num(0), FallingScore(pid))
      : name \in { NameAsha, NameHindiAsha, NameHindiSeva },
        website \in { NoSite, SiteOf(pid) } }

\* The cached categories of the mixed places: two differ, the third is
\* either.
MixedCategory(pid, third) ==
    CASE pid = "p1" -> "Nursing Homes"
      [] pid = "p2" -> "Elder Care"
      [] OTHER      -> third

\* An earlier run classified the places into different active categories.
InitMixed ==
    /\ raw_places \in Inputs([ pid \in PIDs |-> MixedPlaces(pid) ])
    /\ type_to_cat = TypeTableSmall
    /\ \E third \in { "Nursing Homes", "Elder Care" } :
          cache_file = [ pid \in PIDs |->
                           Cached(raw_places[pid], MixedCategory(pid, third)) ]
    /\ InitRest

\* A first run: no cache file.
InitFresh ==
    /\ raw_places \in Inputs([ pid \in PIDs |-> FreshPlaces(pid) ])
    /\ type_to_cat = TypeTableSmall
    /\ cache_file = Empty
    /\ InitRest

\* The first place is any of places, the others are its companions; every
\* place is in the cache file.
InitVaried(places, tables) ==
    /\ raw_places \in { [ pid \in PIDs |-> IF pid = "p1" THEN place ELSE Companion(pid) ]
                         : place \in places }
    /\ type_to_cat \in tables
    /\ cache_file = [ pid \in PIDs |-> Cached(raw_places[pid], "Nursing Homes") ]
    /\ InitRest

\* The first place has any name and website text of the review and any
\* category in the cache file.
InitReview ==
    /\ raw_places \in { [ pid \in PIDs |->
                            IF pid = "p1"
                            THEN BarePlace(name, "health", << "health" >>, "OPERATIONAL", <<>>)
                            ELSE Companion(pid) ] : name \in ReviewNames }
    /\ type_to_cat = TypeTableSmall
    /\ crawl_data \in { [ pid \in PIDs |-> IF pid = "p1" THEN content ELSE <<>> ]
                          : content \in ReviewContents }
    /\ cache_file \in { [ pid \in PIDs |->
                            CacheEntry(raw_places[pid].name, crawl_data[pid],
                                       [ category |-> IF pid = "p1" THEN cat ELSE "Nursing Homes",
                                         confidence |-> "high", reason |-> "llm" ]) ]
                          : cat \in Range(CATEGORIES) }
    /\ InitState

InitStage1 == InitVaried(Stage1Places, { TypeTableSmall })

InitClassifier == InitVaried(ClassifierPlaces, { TypeTableSmall, TypeTableRehab })

InitMalformed == InitVaried(MalformedPlaces, { TypeTableSmall })

Init ==
    \/ InitGeo
    \/ InitKeys
    \/ InitFresh
    \/ InitStage1
    \/ InitClassifier
    \/ InitMalformed
    \/ InitReview
    \/ InitMixed

\* ----------------------------------------------------------- the actions

\* 01 normalize_all(), step 2: _classify_category on every place of the
\* search results. The script shares only its input file with 04a and 04b,
\* which run after it here.
ClassifyCategories ==
    /\ normalizer_pc = "start"
    /\ IF \E pid \in DOMAIN raw_places : ClassifyRaises(raw_places[pid], type_to_cat)
       THEN /\ normalizer_pc' = "crashed"
            /\ UNCHANGED assigned_category
       ELSE /\ assigned_category' =
                  [ pid \in DOMAIN raw_places |->
                      classify_category(raw_places[pid], type_to_cat) ]
            /\ normalizer_pc' = "done"
    /\ UNCHANGED << raw_places, crawl_data, stage1_filtered, cache_file, cache, new_calls,
                    idx, results, removed_domain, removed_name, output_file, pc, run,
                    llm_calls, domain_clusters, name_clusters, first_output,
                    stage1_counters, last_response, type_to_cat, query_hits >>

\* 04a main(): the filter loop over raw_places and the save of the
\* surviving places; a place that raises ends the run before the save.
Stage1Filter ==
    /\ pc = "stage1"
    /\ normalizer_pc # "start"
    /\ IF \E pid \in PIDs : Stage1Raises(raw_places[pid])
       THEN /\ pc' = "crashed"
            /\ UNCHANGED << stage1_filtered, stage1_counters >>
       ELSE LET verdicts == [ pid \in PIDs |-> Stage1Verdict(raw_places[pid]) ]
                Survives(pid) == verdicts[pid].stage = "keep"
            IN  /\ stage1_filtered' = SelectSeq(PidOrder, Survives)
                /\ status_excluded' =
                      Cardinality({ pid \in PIDs : verdicts[pid].stage = "status" })
                /\ stage1a_reasons' = ReasonsOf(verdicts, "1a")
                /\ stage1b_reasons' = ReasonsOf(verdicts, "1b")
                /\ stage1c_reasons' = ReasonsOf(verdicts, "1c")
                /\ pc' = "load"
    /\ UNCHANGED << raw_places, crawl_data, cache_file, cache, new_calls, idx, results,
                    removed_domain, removed_name, output_file, run, llm_calls,
                    domain_clusters, name_clusters, first_output, last_response,
                    normalizer, query_hits >>

\* LoadCache that drops the entries of failed calls, so that they are
\* classified again.
LoadCache_RetryFailures ==
    /\ pc = "load"
    /\ cache' = [ pid \in { q \in DOMAIN cache_file : cache_file[q].llm_confidence # "none" }
                    |-> cache_file[pid] ]
    /\ new_calls' = 0
    /\ idx' = 1
    /\ pc' = "pass1"
    /\ UNCHANGED << raw_places, crawl_data, stage1_filtered, cache_file, results,
                    removed_domain, removed_name, output_file, run, llm_calls,
                    domain_clusters, name_clusters, first_output,
                    stage1_counters, last_response, normalizer, query_hits >>

\* 04b main(), lines 339-378: load the input and the cache file.
LoadCache ==
    /\ pc = "load"
    /\ cache' = cache_file
    /\ new_calls' = 0
    /\ idx' = 1
    /\ pc' = "pass1"
    /\ UNCHANGED << raw_places, crawl_data, stage1_filtered, cache_file, results,
                    removed_domain, removed_name, output_file, run, llm_calls,
                    domain_clusters, name_clusters, first_output,
                    stage1_counters, last_response, normalizer, query_hits >>

\* The cache is written every SavePeriod new calls.
SavePeriod == 100

\* Pass 1, one iteration of the loop for a cached pid: skipped.
ClassifyCached ==
    /\ pc = "pass1"
    /\ idx <= Len(stage1_filtered)
    /\ Has(cache, stage1_filtered[idx])
    /\ idx' = idx + 1
    /\ UNCHANGED << raw_places, crawl_data, stage1_filtered, cache_file, cache, new_calls,
                    results, removed_domain, removed_name, output_file, pc, run,
                    llm_calls, domain_clusters, name_clusters, first_output,
                    stage1_counters, last_response, normalizer, query_hits >>

\* Pass 1, one iteration of the loop for an uncached pid: the call of
\* classify_llm, the cache entry and the periodic save.
ClassifyCall ==
    /\ pc = "pass1"
    /\ idx <= Len(stage1_filtered)
    /\ ~Has(cache, stage1_filtered[idx])
    /\ \E response \in Responses :
          LET pid == stage1_filtered[idx]
              r   == classify_llm(response)
          IN  /\ cache' = Put(cache, pid,
                               CacheEntry(all_data[pid].name, crawl_data[pid], r))
              /\ llm_calls' = [ llm_calls EXCEPT ![pid] = @ + 1 ]
              /\ last_response' = response
    /\ new_calls' = new_calls + 1
    /\ cache_file' = IF new_calls' % SavePeriod = 0 THEN cache' ELSE cache_file
    /\ idx' = idx + 1
    /\ UNCHANGED << raw_places, crawl_data, stage1_filtered, results, removed_domain,
                    removed_name, output_file, pc, run, domain_clusters, name_clusters,
                    first_output, stage1_counters, normalizer, query_hits >>

\* Lines 414-416: the final save of the cache after the loop.
SaveCache ==
    /\ pc = "pass1"
    /\ idx > Len(stage1_filtered)
    /\ cache_file' = cache
    /\ pc' = "pass2"
    /\ last_response' = NoResponse
    /\ UNCHANGED << raw_places, crawl_data, stage1_filtered, cache, new_calls, idx,
                    results, removed_domain, removed_name, output_file, run, llm_calls,
                    domain_clusters, name_clusters, first_output,
                    stage1_counters, normalizer, query_hits >>

\* Lines 431-463: the results entry of one pid.
ResultEntry(place, content, cached) ==
    LET rev == post_llm_review(place.name, content, cached.llm_category)
    IN  [ name |-> place.name,
          category |-> rev.category,
          llm_category |-> cached.llm_category,
          llm_confidence |-> cached.llm_confidence,
          llm_reason |-> cached.llm_reason,
          corrected |-> rev.corrected,
          correction_reason |-> rev.reason,
          has_content |-> cached.has_content,
          city |-> place.city,
          deduplicated |-> FALSE,
          category_before_dedup |-> None ]

\* Pass 2: the review of every entry of all_data.
ReviewAll ==
    /\ pc = "pass2"
    /\ results' = [ pid \in DOMAIN all_data |->
                       ResultEntry(all_data[pid], crawl_data[pid], cache[pid]) ]
    /\ pc' = "pass3a"
    /\ UNCHANGED << raw_places, crawl_data, stage1_filtered, cache_file, cache, new_calls,
                    idx, removed_domain, removed_name, output_file, run, llm_calls,
                    domain_clusters, name_clusters, first_output,
                    stage1_counters, last_response, normalizer, query_hits >>

\* Every entry goes into deduplication.
classified_pids_All == DOMAIN results

\* Line 474
classified_pids == { pid \in DOMAIN results : results[pid].category # "Other" }

\* The groups of pass 3a keyed by the domain alone.
domain_city_groups_NoCity ==
    LET with_domain == { pid \in classified_pids : get_domain(all_data[pid]) # <<>> }
    IN  GroupsBy(with_domain,
                 [ pid \in with_domain |-> get_domain(all_data[pid]) ])

\* Lines 494-499: the (domain, city) groups; a pid without a domain is in
\* none.
domain_city_groups ==
    LET with_domain == { pid \in classified_pids : get_domain(all_data[pid]) # <<>> }
    IN  GroupsBy(with_domain,
                 [ pid \in with_domain |->
                     << get_domain(all_data[pid]), results[pid].city >> ])

\* The name groups without the records of an empty normalized name, as
\* the domain groups are without those of an empty domain.
name_city_groups_SkipEmpty ==
    LET remaining == { pid \in classified_pids \ removed_domain :
                         NormName(results[pid].name) # <<>> }
    IN  GroupsBy(remaining,
                 [ pid \in remaining |->
                     << NormName(results[pid].name), results[pid].city >> ])

\* The name groups keyed by the category as well.
name_city_groups_ByCategory ==
    LET remaining == classified_pids \ removed_domain
    IN  GroupsBy(remaining,
                 [ pid \in remaining |->
                     << NormName(results[pid].name), results[pid].city,
                        results[pid].category >> ])

\* Lines 515-520: the (normalized name, city) groups of what pass 3a left.
name_city_groups ==
    LET remaining == classified_pids \ removed_domain
    IN  GroupsBy(remaining,
                 [ pid \in remaining |->
                     << NormName(results[pid].name), results[pid].city >> ])

\* Pass 3a: dedup by (domain, city).
DedupDomain ==
    /\ pc = "pass3a"
    /\ IF \E pid \in classified_pids : GetDomainRaises(all_data[pid])
       THEN /\ pc' = "crashed"
            /\ UNCHANGED << removed_domain, domain_clusters >>
       ELSE /\ \E out \in PassOutcomes(domain_city_groups, all_data) :
                  /\ removed_domain' = out.removed
                  /\ domain_clusters' = out.clusters
            /\ pc' = "pass3b"
    /\ UNCHANGED << raw_places, crawl_data, stage1_filtered, cache_file, cache, new_calls,
                    idx, results, removed_name, output_file, run, llm_calls,
                    name_clusters, first_output,
                    stage1_counters, last_response, normalizer, query_hits >>

\* Pass 3b: dedup by (normalized name, city) on the remaining pids.
DedupName ==
    /\ pc = "pass3b"
    /\ \E out \in PassOutcomes(name_city_groups, all_data) :
          /\ removed_name' = out.removed
          /\ name_clusters' = out.clusters
    /\ pc' = "mark"
    /\ UNCHANGED << raw_places, crawl_data, stage1_filtered, cache_file, cache, new_calls,
                    idx, results, removed_domain, output_file, run, llm_calls,
                    domain_clusters, first_output,
                    stage1_counters, last_response, normalizer, query_hits >>

\* Lines 535-541
MarkEntry(entry) ==
    [ entry EXCEPT !.deduplicated = TRUE,
                   !.category_before_dedup = entry.category,
                   !.category = "Deduplicated" ]

\* Lines 535-598: mark the removed entries and save the results.
MarkAndSave ==
    /\ pc = "mark"
    /\ LET total_removed == removed_domain \cup removed_name
       IN  results' = [ pid \in DOMAIN results |->
                          IF pid \in total_removed THEN MarkEntry(results[pid])
                          ELSE results[pid] ]
    /\ output_file' = results'
    /\ pc' = "done"
    /\ UNCHANGED << raw_places, crawl_data, stage1_filtered, cache_file, cache, new_calls,
                    idx, removed_domain, removed_name, run, llm_calls, domain_clusters,
                    name_clusters, first_output,
                    stage1_counters, last_response, normalizer, query_hits >>

\* The pipeline is run again on the same input files; the cache file and
\* the output files of the earlier run are on disk.
Rerun ==
    /\ pc = "done"
    /\ run < MaxRuns
    /\ run' = run + 1
    /\ first_output' = IF run = 1 THEN output_file ELSE first_output
    /\ pc' = "stage1"
    /\ cache' = Empty
    /\ new_calls' = 0
    /\ idx' = 1
    /\ results' = Empty
    /\ removed_domain' = {}
    /\ removed_name' = {}
    /\ domain_clusters' = {}
    /\ name_clusters' = {}
    /\ UNCHANGED << raw_places, crawl_data, stage1_filtered, cache_file, output_file,
                    llm_calls, stage1_counters, last_response, normalizer, query_hits >>

Next ==
    \/ ClassifyCategories
    \/ Stage1Filter
    \/ LoadCache
    \/ ClassifyCached
    \/ ClassifyCall
    \/ SaveCache
    \/ ReviewAll
    \/ DedupDomain
    \/ DedupName
    \/ MarkAndSave
    \/ Rerun

Spec == Init /\ [][Next]_vars

\* The process of 04b is killed inside the loop of pass 1 (the code
\* catches nothing and saves nothing there) and the script is started
\* again: what is on disk stays, what is in memory is lost.
Interrupt ==
    /\ pc = "pass1"
    /\ run < MaxRuns
    /\ run' = run + 1
    /\ pc' = "load"
    /\ cache' = Empty
    /\ new_calls' = 0
    /\ idx' = 1
    /\ last_response' = NoResponse
    /\ UNCHANGED << raw_places, crawl_data, stage1_filtered, cache_file, results,
                    removed_domain, removed_name, output_file, llm_calls,
                    domain_clusters, name_clusters, first_output, stage1_counters,
                    normalizer, query_hits >>

NextInterrupt == Next \/ Interrupt

\* The pipeline on inputs without a cache file, with interruptions.
SpecInterrupt == InitFresh /\ [][NextInterrupt]_vars

\* ------------------------------- the search (00_places_search.py)

\* The categories of the search queries.
QueryCategories == { "Nursing Homes", "Elder Care" }

\* How many responses can hold the same place.
MaxHits == 3

\* The place the API returns under the id pid: generic primary type, no
\* machine type of the table, no name of the name cascade.
ApiPlace(pid) ==
    IF pid = "p1" THEN BarePlace(NameAsha, "health", << "health" >>, "OPERATIONAL", <<>>)
    ELSE Companion(pid)

\* The loop body of _process_places for one place of a response: a place
\* already seen gets the category appended if its list lacks it, a new
\* place is stored with the category as its list.
process_place(stored, pid, category) ==
    IF pid \in DOMAIN stored
    THEN [ stored EXCEPT ![pid].found_via =
             IF category \in Range(@) THEN @ ELSE Append(@, category) ]
    ELSE [ q \in DOMAIN stored \cup { pid } |->
             IF q = pid THEN [ ApiPlace(pid) EXCEPT !.found_via = << category >> ]
             ELSE stored[q] ]

\* _process_places over the places of one response, in list order.
RECURSIVE process_places(_, _, _, _)
process_places(stored, places, k, category) ==
    IF k > Len(places) THEN stored
    ELSE process_places(process_place(stored, places[k], category), places, k + 1,
                        category)

\* _process_places(places, query_text, city_name, category): the response
\* of one query of the given category holds the given places.
ProcessPlaces ==
    /\ normalizer_pc = "search"
    /\ \E found \in SUBSET PIDs \ { {} }, category \in QueryCategories :
          /\ \A pid \in found : Len(query_hits[pid]) < MaxHits
          /\ raw_places' =
                process_places(raw_places, SelectSeq(PidOrder, LAMBDA pid : pid \in found),
                               1, category)
          /\ query_hits' = [ pid \in PIDs |->
                               IF pid \in found THEN Append(query_hits[pid], category)
                               ELSE query_hits[pid] ]
    /\ UNCHANGED << crawl_data, stage1_filtered, cache_file, cache, new_calls, idx, results,
                    removed_domain, removed_name, output_file, pc, run, llm_calls,
                    domain_clusters, name_clusters, first_output, stage1_counters,
                    last_response, type_to_cat, assigned_category, normalizer_pc >>

\* run(): every query was run and the results are saved.
SearchDone ==
    /\ normalizer_pc = "search"
    /\ normalizer_pc' = "start"
    /\ UNCHANGED << raw_places, crawl_data, stage1_filtered, cache_file, cache, new_calls,
                    idx, results, removed_domain, removed_name, output_file, pc, run,
                    llm_calls, domain_clusters, name_clusters, first_output,
                    stage1_counters, last_response, type_to_cat, assigned_category,
                    query_hits >>

\* Before the first query: no place is stored.
InitSearch ==
    /\ raw_places = Empty
    /\ query_hits = [ pid \in PIDs |-> <<>> ]
    /\ normalizer_pc = "search"
    /\ type_to_cat = TypeTableSmall
    /\ crawl_data = [ pid \in PIDs |-> <<>> ]
    /\ cache_file = Empty
    /\ InitPipeline

NextSearch ==
    \/ ProcessPlaces
    \/ SearchDone
    \/ ClassifyCategories

\* The search and the normalizer that reads its results.
SpecSearch == InitSearch /\ [][NextSearch]_vars

\* ------------------------------------------------------------ the claims

Done == pc = "done"

Survivor(pid) == Stage1Verdict(raw_places[pid]).stage = "keep"

\* The final dispositions, read from stage2_classified.json.
InOutput(pid)     == pid \in DOMAIN output_file
Deduplicated(pid) == InOutput(pid) /\ output_file[pid].category = "Deduplicated"
IsOther(pid)      == InOutput(pid) /\ output_file[pid].category = "Other"
Kept(pid)         == InOutput(pid) /\ output_file[pid].category \in ActiveCategories

AllClusters == domain_clusters \cup name_clusters

SameDomain(p, q) ==
    /\ get_domain(raw_places[p]) # <<>>
    /\ get_domain(raw_places[p]) = get_domain(raw_places[q])

\* The name in lower case with every token that is no letter or digit
\* left out.
Normalized(name) ==
    LET Kept_(t) == t \notin { "-", "&", ".", ",", "asha_hi", "seva_hi", "kendra_hi" }
    IN  SelectSeq([ k \in 1..Len(name) |-> LowerTok(name[k]) ], Kept_)

SameNormName(p, q) == Normalized(raw_places[p].name) = Normalized(raw_places[q].name)

SameCity(p, q) == raw_places[p].city = raw_places[q].city

Located(p) == raw_places[p].lat # NoNum /\ raw_places[p].lng # NoNum

\* The distance of two located places, squared, in square metres.
Dist2(p, q) ==
    (raw_places[p].lat[1] - raw_places[q].lat[1]) * (raw_places[p].lat[1] - raw_places[q].lat[1])
    + (raw_places[p].lng[1] - raw_places[q].lng[1]) * (raw_places[p].lng[1] - raw_places[q].lng[1])

Near(p, q) == Located(p) /\ Located(q) /\ Dist2(p, q) <= 200 * 200

\* C1: after the full pipeline every input record has exactly one final
\* disposition: a stage 1 survivor has one entry in the stage 2 result map
\* whose category is one of the five canonical categories or
\* "Deduplicated", and a record excluded at stage 1 is in no later output
\* (not in the stage 1 file, never sent to the classifier, not in the
\* result map).
C1_OneDisposition ==
    Done =>
      \A pid \in PIDs :
        IF Survivor(pid)
        THEN /\ InOutput(pid)
             /\ Cardinality({ k \in 1..Len(stage1_filtered) : stage1_filtered[k] = pid }) = 1
             /\ output_file[pid].category \in Range(CATEGORIES) \cup { "Deduplicated" }
             /\ Cardinality({ d \in { "other", "kept", "deduplicated" } :
                    \/ d = "other" /\ IsOther(pid)
                    \/ d = "kept" /\ Kept(pid)
                    \/ d = "deduplicated" /\ Deduplicated(pid) }) = 1
        ELSE /\ ~InOutput(pid)
             /\ pid \notin Range(stage1_filtered)
             /\ llm_calls[pid] = 0

\* A finished run with a record excluded at stage 1, a kept one and a
\* deduplicated one.
C1_Witness ==
    /\ Done
    /\ \E p, q, r \in PIDs : ~Survivor(p) /\ Kept(q) /\ Deduplicated(r)

Reviews(pid) == IF raw_places[pid].reviews = NoNum THEN 0 ELSE raw_places[pid].reviews[1]
Rating(pid)  == IF raw_places[pid].rating = NoNum THEN 0 ELSE raw_places[pid].rating[1]

\* p scores at least as much as q: more reviews, or as many and a rating
\* at least as high; missing data counts as 0.
ScoresAtLeast(p, q) ==
    Reviews(p) > Reviews(q) \/ (Reviews(p) = Reviews(q) /\ Rating(p) >= Rating(q))

\* The record went into deduplication: it is in the result map with an
\* active category after the review.
Active(pid) == InOutput(pid) /\ output_file[pid].category # "Other"

\* Of the cluster exactly one member is not in removed, and no member
\* scores more than it.
BestIsKept(cluster, removed) ==
    \E k \in cluster :
        /\ cluster \ removed = { k }
        /\ \A m \in cluster : ScoresAtLeast(k, m)

\* No third active record of the city lies near p or q.
PairAlone(p, q) ==
    \A r \in PIDs \ { p, q } :
        ~(Active(r) /\ SameCity(r, p) /\ (Near(r, p) \/ Near(r, q)))

\* C2: in each dedup pass every cluster of more than one member keeps
\* exactly one member, one of maximum (review_count, rating) score in the
\* lexicographic order with missing data as (0, 0), and all its other
\* members end Deduplicated; of two active records alone in their city with
\* the same domain and 40 and 5 reviews, only the first is kept when they
\* are 50 m apart, and both are kept when they are 300 m apart.
C2_KeepBest ==
    /\ pc \in { "pass3b", "mark", "done" } =>
          \A c \in domain_clusters : BestIsKept(c, removed_domain)
    /\ pc \in { "mark", "done" } =>
          \A c \in name_clusters : BestIsKept(c, removed_name)
    /\ Done =>
          /\ \A c \in AllClusters :
                \A m \in c \cap (removed_domain \cup removed_name) : Deduplicated(m)
          /\ \A p, q \in PIDs :
                ( /\ Active(p) /\ Active(q)
                  /\ SameDomain(p, q) /\ SameCity(p, q)
                  /\ Located(p) /\ Located(q)
                  /\ Reviews(p) = 40 /\ Reviews(q) = 5
                  /\ PairAlone(p, q) )
                => /\ Dist2(p, q) = 50 * 50 => Kept(p) /\ Deduplicated(q)
                   /\ Dist2(p, q) = 300 * 300 => Kept(p) /\ Kept(q)

\* A finished run with the 50 m pair, and one with the 300 m pair.
C2_Witness ==
    /\ Done
    /\ \E p, q \in PIDs :
          /\ SameDomain(p, q) /\ SameCity(p, q) /\ Located(p) /\ Located(q)
          /\ Reviews(p) = 40 /\ Reviews(q) = 5 /\ PairAlone(p, q)
          /\ Dist2(p, q) = 50 * 50
          /\ Kept(p) /\ Deduplicated(q)
          /\ \E c \in domain_clusters : c = { p, q }

\* C3: of two active records of one city whose normalized names are equal
\* and whose coordinates are within the distance threshold, at most one
\* is kept after the domain pass and the name pass.
C3_SameNameNearNotBothKept ==
    Done =>
      \A p, q \in PIDs :
        (p # q /\ SameCity(p, q) /\ SameNormName(p, q) /\ Near(p, q))
        => ~(Kept(p) /\ Kept(q))

\* Two names that differ as written and are equal normalized, near each
\* other in one city, with no common domain: the name pass removed one.
C3_Witness ==
    /\ Done
    /\ \E p, q \in PIDs :
          /\ raw_places[p].name # raw_places[q].name
          /\ SameNormName(p, q) /\ SameCity(p, q) /\ Near(p, q)
          /\ ~SameDomain(p, q)
          /\ Kept(p) /\ Deduplicated(q) /\ q \in removed_name

ClusterSets(clusters) == { Range(clusters[k]) : k \in 1..Len(clusters) }

\* The clusters are non-empty lists without repetition of members of the
\* group, and every member of the group is in exactly one of them.
IsPartitionOf(clusters, group) ==
    /\ \A k \in 1..Len(clusters) :
          /\ clusters[k] # <<>>
          /\ Range(clusters[k]) \subseteq group
          /\ Cardinality(Range(clusters[k])) = Len(clusters[k])
    /\ \A pid \in group :
          Cardinality({ k \in 1..Len(clusters) : pid \in Range(clusters[k]) }) = 1

\* p and q are joined by a chain of members of S, each link of the chain
\* at most 200 m long.
Connected(p, q, S) ==
    \E n \in 1..Cardinality(S) :
      \E path \in [ 1..n -> S ] :
        /\ path[1] = p
        /\ path[n] = q
        /\ \A k \in 1..(n - 1) : Near(path[k], path[k + 1])

\* Every list of clusters the function can return for the group is a
\* partition of it whose clusters of located records are the connected
\* components, and all those lists hold the same clusters.
ClustersAreComponents(group) ==
    LET outs    == UNION { cluster_by_proximity(order, all_data) : order \in Orders(group) }
        located == { pid \in group : Located(pid) }
    IN  \A cs \in outs :
          /\ IsPartitionOf(cs, group)
          /\ \A p, q \in located :
                (\E c \in ClusterSets(cs) : p \in c /\ q \in c) <=> Connected(p, q, located)
          /\ \A other \in outs : ClusterSets(other) = ClusterSets(cs)

\* C4: cluster_by_proximity returns a partition of its input in which the
\* clusters of the records with coordinates are the connected components
\* of the "at most 200 m apart" graph, a far point being pulled in by a
\* chain of near ones, whatever the seed and the scan order.
C4_ClustersAreComponents ==
    /\ pc = "pass3a" => \A g \in domain_city_groups : ClustersAreComponents(g)
    /\ pc = "pass3b" => \A g \in name_city_groups : ClustersAreComponents(g)

\* Pass 3a formed a cluster with two members more than 200 m apart.
C4_Witness ==
    /\ pc = "pass3b"
    /\ \E c \in domain_clusters :
          \E p, q \in c : Located(p) /\ Located(q) /\ ~Near(p, q)

\* C5: a record lacking a coordinate is always in a cluster of its own:
\* it is in no cluster of more than one member, so it neither ends
\* Deduplicated nor has another record removed in its favour.
C5_NoCoordsNeverMerged ==
    /\ \A c \in AllClusters : \A m \in c : Located(m)
    /\ pc = "pass3a" =>
          \A g \in domain_city_groups : \A order \in Orders(g) :
            \A cs \in cluster_by_proximity(order, all_data) :
              \A k \in 1..Len(cs) :
                (\E m \in Range(cs[k]) : ~Located(m)) => Len(cs[k]) = 1
    /\ Done => \A pid \in PIDs : ~Located(pid) => ~Deduplicated(pid)

\* A record without coordinates and another record of the same domain,
\* normalized name and city are both kept.
C5_Witness ==
    /\ Done
    /\ \E p, q \in PIDs :
          /\ p # q /\ ~Located(p)
          /\ SameDomain(p, q) /\ SameNormName(p, q) /\ SameCity(p, q)
          /\ Kept(p) /\ Kept(q)

\* C6: both passes are scoped to one city: the members of a cluster share
\* the city, and a record ends Deduplicated only next to a record of its
\* own city that was in its cluster and survived that pass.
C6_SameCityOnly ==
    /\ \A c \in AllClusters : \A p, q \in c : SameCity(p, q)
    /\ Done =>
          \A pid \in PIDs :
            Deduplicated(pid) =>
              \/ \E c \in domain_clusters : \E q \in c \ removed_domain :
                    pid \in c /\ q # pid /\ SameCity(pid, q)
              \/ \E c \in name_clusters : \E q \in c \ removed_name :
                    pid \in c /\ q # pid /\ SameCity(pid, q)

\* Two records of different cities with the same domain and normalized
\* name at less than 200 m are both kept.
C6_Witness ==
    /\ Done
    /\ \E p, q \in PIDs :
          /\ ~SameCity(p, q) /\ SameDomain(p, q) /\ SameNormName(p, q) /\ Near(p, q)
          /\ Kept(p) /\ Kept(q)

\* C7: deduplication starts when every record of the stage 1 output has
\* its reviewed category, and only records of an active category take
\* part: a record whose category is "Other" is in no cluster, is never
\* marked, and a marked record had an active category.
C7_OnlyActiveDeduplicated ==
    /\ pc \in { "pass3a", "pass3b", "mark" } =>
          /\ DOMAIN results = Range(stage1_filtered)
          /\ \A pid \in DOMAIN results :
                results[pid].category =
                  post_llm_review(raw_places[pid].name, crawl_data[pid],
                                  cache[pid].llm_category).category
          /\ \A c \in AllClusters : \A m \in c : results[m].category # "Other"
          /\ \A m \in removed_domain \cup removed_name : results[m].category # "Other"
    /\ Done =>
          \A pid \in PIDs :
            /\ IsOther(pid) =>
                  /\ pid \notin UNION AllClusters
                  /\ ~output_file[pid].deduplicated
            /\ Deduplicated(pid) =>
                  output_file[pid].category_before_dedup \in ActiveCategories

\* The record of the highest score was reassigned to "Other" by the
\* review; of the two others of its domain one is kept, one removed.
C7_Witness ==
    /\ Done
    /\ \E p, q, r \in PIDs :
          /\ IsOther(p) /\ output_file[p].corrected
          /\ SameDomain(p, q) /\ SameCity(p, q) /\ Near(p, q)
          /\ Reviews(p) > Reviews(q)
          /\ Kept(q) /\ Deduplicated(r)

\* C8, as stated: after both passes every cluster of more than one member
\* formed in the domain pass or in the name pass contains exactly one
\* kept record.
C8_ExactlyOneKeptPerCluster ==
    Done => \A c \in AllClusters : Cardinality({ m \in c : Kept(m) }) = 1

\* C8, amended: after both passes every cluster formed in the name pass
\* contains exactly one kept record; every cluster formed in the domain
\* pass contains exactly one record that the domain pass did not remove
\* and at most one kept record (none when the name pass removed its
\* survivor in favour of a record outside the cluster).
C8_OneSurvivorPerPass ==
    Done =>
      /\ \A c \in name_clusters : Cardinality({ m \in c : Kept(m) }) = 1
      /\ \A c \in domain_clusters :
            /\ Cardinality(c \ removed_domain) = 1
            /\ Cardinality({ m \in c : Kept(m) }) <= 1
            /\ Cardinality({ m \in c : Kept(m) }) = 0 =>
                  \E m \in c \ removed_domain :
                    \E n \in name_clusters : m \in n /\ m \in removed_name

\* A domain cluster none of whose members is kept: the name pass removed
\* its survivor in favour of a record outside the cluster.
C8_Witness ==
    /\ Done
    /\ \E c \in domain_clusters :
          /\ { m \in c : Kept(m) } = {}
          /\ \E n \in name_clusters : \E k \in n : Kept(k) /\ k \notin c

\* The fields of a result entry that hold a text.
EntryTexts(entry) ==
    { entry.category, entry.llm_category, entry.llm_confidence, entry.llm_reason,
      entry.city, entry.category_before_dedup }

\* C9: every Deduplicated record carries in its output entry the id of the
\* surviving record it was folded into, and that record is kept.
C9_BackReference ==
    Done =>
      \A pid \in PIDs :
        Deduplicated(pid) =>
          \E q \in PIDs \ { pid } : q \in EntryTexts(output_file[pid]) /\ Kept(q)

\* C10: a further run of the pipeline on the same input, every
\* classification cached, writes the same output mapping as the first run.
C10_Idempotent ==
    (Done /\ run >= 2) => output_file = first_output

\* ---------------------------------------------- interruption and resume

\* C11: whatever the point at which the classification pass is
\* interrupted, a record for which the external classifier already
\* returned a result is not sent to the classifier again by the resumed
\* run: no record is classified twice.
C11_NoRepeatedCall == \A pid \in PIDs : llm_calls[pid] <= 1

\* ------------------------------------------- failures of the classifier

\* The entry that the last call of classify_llm left in the cache.
LastEntry == cache[stage1_filtered[idx - 1]]

AfterCall == pc = "pass1" /\ last_response # NoResponse

\* The classifier raised, timed out, or answered something that is not a
\* JSON object.
CallFailed == last_response.kind \in { "raise", "text", "list" }

\* The classifier answered an object whose category is not canonical.
OffList ==
    /\ last_response.kind = "object"
    /\ last_response.category \notin
         { "Nursing Homes", "Elder Care", "Post-Hospital Care", "Home Health Care",
           "Other", Missing }

IsSentinel(entry) ==
    /\ entry.llm_category = "Other"
    /\ entry.llm_confidence = "none"
    /\ entry.llm_reason = "LLM error"

Canonical(entry) ==
    entry.llm_category \in
      { "Nursing Homes", "Elder Care", "Post-Hospital Care", "Home Health Care", "Other" }

\* C12, as stated: when the classifier raises, times out, answers
\* unparsable text, JSON that is no object or a category outside the
\* canonical set, the stored entry is the sentinel Other with confidence
\* none and a reason naming the failure; the stored category is always
\* canonical and the loop goes on.
C12_EveryFailureIsSentinel ==
    AfterCall =>
      /\ Canonical(LastEntry)
      /\ (CallFailed \/ OffList) => IsSentinel(LastEntry)

\* C12, amended: when the classifier raises, times out, answers unparsable
\* text or JSON that is no object, the stored entry is the sentinel Other
\* with confidence none and a reason naming the failure; when it answers
\* an object with a category outside the canonical set, the stored
\* category is Other and the confidence and reason are the ones it
\* returned; the stored category is always canonical and the loop goes
\* on to the next record.
C12_FailureDegrades ==
    AfterCall =>
      /\ Canonical(LastEntry)
      /\ CallFailed => IsSentinel(LastEntry)
      /\ OffList =>
           /\ LastEntry.llm_category = "Other"
           /\ LastEntry.llm_confidence = last_response.confidence
           /\ LastEntry.llm_reason = last_response.reason
      /\ idx <= Len(stage1_filtered) => ENABLED (ClassifyCall \/ ClassifyCached)

\* The classifier failed on a record and another record is still to come.
C12_Witness ==
    /\ AfterCall
    /\ CallFailed
    /\ IsSentinel(LastEntry)
    /\ idx <= Len(stage1_filtered)

\* ------------------------------------------------------ malformed input

\* C13: no input with a missing or null name, primary_type, types,
\* business_status, website, rating or review count makes stage 1, the
\* review or the deduplication raise.
C13_NeverRaises == pc # "crashed"

\* -------------------------------------------------- the passes of stage 1

\* Stage 1 has just run to its end and written its output.
Filtered == pc = "load"

StatusOf(pid) ==
    IF raw_places[pid].business_status = None THEN "OPERATIONAL"
    ELSE raw_places[pid].business_status

PrimaryOf(pid) ==
    IF raw_places[pid].primary_type = None THEN "" ELSE raw_places[pid].primary_type

FoldedName(pid) == Lower(raw_places[pid].name)

\* The pass that matches the place of pid first, in the order status,
\* hard and soft name patterns, primary type, sub-type; "keep" if none.
FirstPass(pid) ==
    CASE StatusOf(pid) \notin { "OPERATIONAL", "" }          -> "status"
      [] OTHER ->
    CASE check_stage1a(FoldedName(pid)) # None                -> "1a"
      [] OTHER ->
    CASE check_stage1b(PrimaryOf(pid))                        -> "1b"
      [] OTHER ->
    CASE /\ PrimaryOf(pid) \notin HEALTHCARE_PRIMARY_TYPES
         /\ check_stage1c(raw_places[pid].types) # None       -> "1c"
      [] OTHER                                                -> "keep"

\* The pids that pass first excludes.
ExcludedBy(pass) == { pid \in PIDs : FirstPass(pid) = pass }

\* C14: stage 1 applies the status check, the hard and soft name
\* exclusion, the primary-type whitelist and the sub-type blacklist in
\* this order; a record is excluded by the first pass that matches, the
\* recorded reason is the rule matched in that pass, and the stage-1
\* output holds exactly the records that no pass matches.
C14_FirstPassWins ==
    Filtered =>
      /\ stage1_filtered = SelectSeq(PidOrder, LAMBDA pid : FirstPass(pid) = "keep")
      /\ status_excluded = Cardinality(ExcludedBy("status"))
      /\ stage1a_reasons =
           Counter([ pid \in ExcludedBy("1a") |-> check_stage1a(FoldedName(pid)) ])
      /\ stage1b_reasons = Counter([ pid \in ExcludedBy("1b") |-> PrimaryOf(pid) ])
      /\ stage1c_reasons =
           Counter([ pid \in ExcludedBy("1c") |-> check_stage1c(raw_places[pid].types) ])

\* A closed place whose name, primary type and sub-types every later pass
\* would match is counted by the status check only.
C14_Witness ==
    /\ pc = "load"
    /\ raw_places["p1"].business_status = "CLOSED_PERMANENTLY"
    /\ raw_places["p1"].name = NameNursingHospital
    /\ raw_places["p1"].primary_type = "doctor"
    /\ raw_places["p1"].types = << "store" >>
    /\ status_excluded = 1
    /\ stage1b_reasons = Empty
    /\ stage1c_reasons = Empty
    /\ "p1" \notin Range(stage1_filtered)

\* ---------------------------------------------- the name pass of stage 1

\* The place is operational as far as the status check goes.
Operational(pid) == StatusOf(pid) \in { "OPERATIONAL", "" }

\* Some hard-exclusion pattern matches the case-folded name.
HardMatch(pid) ==
    \E k \in 1..Len(HARD_EXCLUDE_PATTERNS) :
        SearchPat(HARD_EXCLUDE_PATTERNS[k], FoldedName(pid))

\* C15: an operational record whose case-folded name matches a
\* hard-exclusion pattern is excluded at stage 1 by the name pass under a
\* hard pattern, whatever its primary type, its machine types and the
\* positive keywords its name also contains.
C15_HardHasNoOverride ==
    Filtered =>
      \A pid \in PIDs :
        (Operational(pid) /\ HardMatch(pid)) =>
          /\ pid \notin Range(stage1_filtered)
          /\ \E k \in 1..Len(HARD_EXCLUDE_PATTERNS) :
                /\ SearchPat(HARD_EXCLUDE_PATTERNS[k], FoldedName(pid))
                /\ HARD_EXCLUDE_PATTERNS[k].pat \in DOMAIN stage1a_reasons

\* "Asha Nursing Hospital", of a healthcare primary type: excluded by the
\* pattern hospital although nursing is a positive keyword.
C15_Witness ==
    /\ Filtered
    /\ raw_places["p1"].name = NameNursingHospital
    /\ raw_places["p1"].primary_type = "health"
    /\ raw_places["p1"].business_status = "OPERATIONAL"
    /\ Search(POSITIVE_KEYWORDS, FoldedName("p1"))
    /\ "p1" \notin Range(stage1_filtered)
    /\ "hospital" \in DOMAIN stage1a_reasons

\* The pair k of the soft list excludes the name: its negative pattern
\* matches and its override is none or does not match.
PairExcludes(k, name_lower) ==
    LET pair == SOFT_EXCLUDE_PATTERNS[k]
    IN  /\ \E i \in 1..Len(name_lower) :
              /\ name_lower[i] \in pair.first
              /\ pair.then # {} => \E j \in (i + 1)..Len(name_lower) : name_lower[j] \in pair.then
        /\ pair.haspos => \A i \in 1..Len(name_lower) : name_lower[i] \notin pair.pos

\* The pids that the soft pass is to exclude, and each one's first
\* excluding pair.
SoftExcluded ==
    { pid \in PIDs :
        /\ Operational(pid)
        /\ ~HardMatch(pid)
        /\ \E k \in 1..Len(SOFT_EXCLUDE_PATTERNS) : PairExcludes(k, FoldedName(pid)) }

FirstExcludingPair(pid) ==
    CHOOSE k \in 1..Len(SOFT_EXCLUDE_PATTERNS) :
        /\ PairExcludes(k, FoldedName(pid))
        /\ \A j \in 1..(k - 1) : ~PairExcludes(j, FoldedName(pid))

\* The operational pids with a hard match, which the name pass reports
\* under a hard pattern.
HardExcluded == { pid \in PIDs : Operational(pid) /\ HardMatch(pid) }

\* C16: a name that passes the hard pass is excluded by the soft pass if
\* and only if some (negative, override) pair has its negative pattern
\* match and its override none or not matching; a name that the override
\* of one pair rescues is still tested against the later pairs; the
\* reported rule is the negative pattern of the first excluding pair.
C16_SoftExclusion ==
    Filtered =>
      /\ \A pid \in SoftExcluded : pid \notin Range(stage1_filtered)
      /\ \A pat \in { SOFT_EXCLUDE_PATTERNS[k].pat : k \in 1..Len(SOFT_EXCLUDE_PATTERNS) } :
            LET reported == IF pat \in DOMAIN stage1a_reasons THEN stage1a_reasons[pat] ELSE 0
            IN  reported =
                  Cardinality({ pid \in SoftExcluded :
                                  SOFT_EXCLUDE_PATTERNS[FirstExcludingPair(pid)].pat = pat })
      /\ \A pid \in PIDs \ (SoftExcluded \cup HardExcluded) :
            (/\ Operational(pid)
             /\ PrimaryOf(pid) \in HEALTHCARE_PRIMARY_TYPES) => pid \in Range(stage1_filtered)

\* "Asha Neuro Physio Foundation": neuro rescues it from the pair physio,
\* the later pair foundation excludes it and is the reported rule.
C16_Witness ==
    /\ Filtered
    /\ raw_places["p1"].name = NameNeuroPhysioFoundation
    /\ raw_places["p1"].business_status = "OPERATIONAL"
    /\ ~PairExcludes(1, FoldedName("p1"))
    /\ "p1" \notin Range(stage1_filtered)
    /\ "foundation" \in DOMAIN stage1a_reasons
    /\ "physio" \notin DOMAIN stage1a_reasons

\* ------------------------------------- the type passes of stage 1

\* The operational pids whose name no pattern of the name pass excludes.
NamePassed ==
    { pid \in PIDs :
        /\ Operational(pid)
        /\ ~HardMatch(pid)
        /\ \A k \in 1..Len(SOFT_EXCLUDE_PATTERNS) : ~PairExcludes(k, FoldedName(pid)) }

AllowedPrimaryTypes == { "health", "medical_clinic", "service", "medical_center", "" }

\* Some machine type of the place is a key of the type-to-category table.
HasMappedType(pid) ==
    \E k \in 1..Len(raw_places[pid].types) : raw_places[pid].types[k] \in DOMAIN type_to_cat

\* C17 as stated: the whitelist excludes a record that passed the name
\* passes if and only if its primary type is outside the allowed set and
\* none of its machine types is in the type-to-category table.
C17_WhitelistWithBypass ==
    Filtered =>
      stage1b_reasons =
        Counter([ pid \in { q \in NamePassed :
                              /\ PrimaryOf(q) \notin AllowedPrimaryTypes
                              /\ ~HasMappedType(q) } |-> PrimaryOf(pid) ])

\* C17, amended: the whitelist excludes a record that passed the name
\* passes if and only if its primary type is outside the allowed set,
\* whatever its machine types; a machine type of the type-to-category
\* table does not keep the record.
C17_WhitelistNoBypass ==
    Filtered =>
      /\ stage1b_reasons =
           Counter([ pid \in { q \in NamePassed : PrimaryOf(q) \notin AllowedPrimaryTypes }
                       |-> PrimaryOf(pid) ])
      /\ \A pid \in NamePassed :
            PrimaryOf(pid) \notin AllowedPrimaryTypes => pid \notin Range(stage1_filtered)

\* A place of primary type doctor with the machine type nursing_home,
\* which the table maps, is excluded by the whitelist.
C17_Witness ==
    /\ Filtered
    /\ "p1" \in NamePassed
    /\ raw_places["p1"].primary_type = "doctor"
    /\ raw_places["p1"].types = << "nursing_home" >>
    /\ HasMappedType("p1")
    /\ "p1" \notin Range(stage1_filtered)
    /\ stage1b_reasons = Counter([ pid \in { "p1" } |-> "doctor" ])

\* The pids that reach the sub-type pass.
TypePassed == { pid \in NamePassed : PrimaryOf(pid) \in AllowedPrimaryTypes }

SkipsSubtypes(pid) == PrimaryOf(pid) \in { "health", "medical_clinic", "medical_center" }

ExclusionTags(pid) ==
    { k \in 1..Len(raw_places[pid].types) : raw_places[pid].types[k] \in EXCLUDE_SUBTYPES }

FirstExclusionTag(pid) ==
    raw_places[pid].types[CHOOSE k \in ExclusionTags(pid) : \A j \in ExclusionTags(pid) : k <= j]

\* C18: a record that reaches the sub-type pass with the primary type
\* health, medical_clinic or medical_center is kept whatever its machine
\* types; with the primary type service or empty it is excluded if and
\* only if some machine type is in the exclusion set, and the reported
\* sub-type is the first such tag of the list.
C18_SubtypeBlacklist ==
    Filtered =>
      /\ \A pid \in TypePassed :
            pid \in Range(stage1_filtered) <=> (SkipsSubtypes(pid) \/ ExclusionTags(pid) = {})
      /\ stage1c_reasons =
           Counter([ pid \in { q \in TypePassed : ~SkipsSubtypes(q) /\ ExclusionTags(q) # {} }
                       |-> FirstExclusionTag(pid) ])

\* A service with the tags point_of_interest, gym, store is reported under
\* gym, while a place of primary type health tagged store is kept.
C18_Witness ==
    /\ Filtered
    /\ "p1" \in TypePassed
    /\ raw_places["p1"].primary_type = "service"
    /\ raw_places["p1"].types = << "point_of_interest", "gym", "store" >>
    /\ stage1c_reasons = Counter([ pid \in { "p1" } |-> "gym" ])
    /\ "p1" \notin Range(stage1_filtered)
    /\ raw_places["p3"].primary_type = "health"
    /\ raw_places["p3"].types = << "store" >>
    /\ "p3" \in Range(stage1_filtered)

\* ------------------------------------ the category of the normalizer

\* The normalizer has classified every place.
Classified == normalizer_pc = "done"

\* The positions of the machine types that the type-to-category table has.
MappedTypes(pid) ==
    { k \in 1..Len(raw_places[pid].types) : raw_places[pid].types[k] \in DOMAIN type_to_cat }

FirstMappedType(pid) ==
    raw_places[pid].types[CHOOSE k \in MappedTypes(pid) : \A j \in MappedTypes(pid) : k <= j]

\* C19: a record with a machine type in the type-to-category table gets
\* the category of the first such type of its list, and a record with no
\* such machine type and a primary type in the table gets the category of
\* the primary type, whatever its name and its search context.
C19_DirectMappingFirst ==
    Classified =>
      \A pid \in PIDs :
        /\ MappedTypes(pid) # {} =>
              assigned_category[pid] = type_to_cat[FirstMappedType(pid)]
        /\ (/\ MappedTypes(pid) = {}
            /\ raw_places[pid].primary_type \in DOMAIN type_to_cat) =>
              assigned_category[pid] = type_to_cat[raw_places[pid].primary_type]

\* "Asha Nursing Home" of primary type nursing_home, with the machine
\* types retirement_home, nursing_home and found by Nursing Homes queries,
\* is Elder Care.
C19_Witness ==
    /\ Classified
    /\ raw_places["p1"].name = NameNursingHome
    /\ raw_places["p1"].primary_type = "nursing_home"
    /\ raw_places["p1"].types = << "retirement_home", "nursing_home" >>
    /\ raw_places["p1"].found_via = << "Elder Care", "Nursing Homes", "Nursing Homes" >>
    /\ NameCascade(raw_places["p1"]) = "Nursing Homes"
    /\ assigned_category["p1"] = "Elder Care"

\* The name has the word rehabilitation followed by centre, center,
\* facility or home.
ContainsGenericTerm(name_lower) ==
    \E k \in 1..(Len(name_lower) - 1) :
        /\ name_lower[k] = "rehabilitation"
        /\ name_lower[k + 1] \in { "centre", "center", "facility", "home" }

\* The place of pid comes to the generic-term rule: no direct mapping and
\* no earlier rule of the name cascade.
ReachesGenericRule(pid) ==
    /\ MappedTypes(pid) = {}
    /\ raw_places[pid].primary_type \notin DOMAIN type_to_cat
    /\ ~AnyPhrase(NursingHomeTerms, FoldedName(pid))
    /\ ~AnyPhrase(ElderCareTerms, FoldedName(pid))
    /\ ~AnyMatch(PostHospitalPatterns, FoldedName(pid))

\* C20: a name with the generic rehabilitation term that matches no
\* earlier rule is Post-Hospital Care if and only if it also has a
\* medical-context word or the machine types include
\* rehabilitation_center; otherwise the Home Health Care rule, then the
\* search context, then no category.
C20_GenericTermTwoStep ==
    Classified =>
      \A pid \in PIDs :
        (ReachesGenericRule(pid) /\ ContainsGenericTerm(FoldedName(pid))) =>
          IF \/ Search(medical_context, FoldedName(pid))
             \/ "rehabilitation_center" \in Range(raw_places[pid].types)
          THEN assigned_category[pid] = "Post-Hospital Care"
          ELSE assigned_category[pid] =
                 IF AnyPhrase(HomeHealthTerms, FoldedName(pid)) THEN "Home Health Care"
                 ELSE SearchContext(raw_places[pid])

\* ------------------------------------ the search context of the normalizer

\* No machine type and no primary type of the place is in the table and no
\* rule of the name cascade matches its name.
NoTypeNoName(pid) ==
    /\ ReachesGenericRule(pid)
    /\ ~(/\ GenericRehabTerm(FoldedName(pid))
         /\ \/ Search(medical_context, FoldedName(pid))
            \/ "rehabilitation_center" \in Range(raw_places[pid].types))
    /\ ~AnyPhrase(HomeHealthTerms, FoldedName(pid))

GenericPrimaryTypes == { "health", "service", "medical_clinic", "medical_center" }

Occurrences(pid, cat) ==
    Cardinality({ k \in 1..Len(raw_places[pid].found_via) : raw_places[pid].found_via[k] = cat })

\* The categories of the search context that none outnumbers.
MostFrequent(pid) ==
    { cat \in Range(raw_places[pid].found_via) :
        \A other \in Range(raw_places[pid].found_via) :
            Occurrences(pid, other) <= Occurrences(pid, cat) }

\* The one of them that the list has first.
FirstMostFrequent(pid) ==
    raw_places[pid].found_via[
        CHOOSE k \in 1..Len(raw_places[pid].found_via) :
            /\ raw_places[pid].found_via[k] \in MostFrequent(pid)
            /\ \A j \in 1..(k - 1) : raw_places[pid].found_via[j] \notin MostFrequent(pid)]

\* The search context has a directory category at least twice as its
\* most frequent one.
RepeatEvidence(pid) ==
    /\ raw_places[pid].found_via # <<>>
    /\ FirstMostFrequent(pid) \in
         { "Nursing Homes", "Elder Care", "Post-Hospital Care", "Home Health Care" }
    /\ Occurrences(pid, FirstMostFrequent(pid)) >= 2

ContextAdmitted(pid) ==
    \/ raw_places[pid].primary_type \in GenericPrimaryTypes
    \/ /\ raw_places[pid].primary_type \in { "", None }
       /\ raw_places[pid].types # <<>>

Reviewed == pc = "pass3a"

\* The text the review reads: the name, then the website text, case-folded.
Combined(pid) == Lower(raw_places[pid].name) \o Lower(crawl_data[pid])

Matches(pats, text) == \E k \in 1..Len(pats) : SearchPat(pats[k], text)

RuleNames ==
    << "addiction rehab reclassified",
       "psychiatric rehab without post-hospital signals",
       "children's disability rehab",
       "diagnostic/lab reclassified",
       "pure physio reclassified",
       "staffing/manpower reclassified",
       "equipment/supplies reclassified" >>

\* C22: the review returns either the category it was given, corrected
\* false and an empty reason, or Other, corrected true and a reason that
\* names one of the rules; it corrects active categories only, so the
\* category Other comes back unchanged and uncorrected.
C22_OnlyToOther ==
    Reviewed =>
      \A pid \in DOMAIN results :
        LET entry == results[pid]
        IN  /\ \/ /\ entry.category = entry.llm_category
                  /\ ~entry.corrected
                  /\ entry.correction_reason = <<>>
               \/ /\ entry.category = "Other"
                  /\ entry.corrected
                  /\ entry.correction_reason # <<>>
                  /\ entry.correction_reason[1] \in Range(RuleNames)
                  /\ entry.llm_category \in ActiveCategories
            /\ entry.llm_category = "Other" => ~entry.corrected /\ entry.category = "Other"

\* "Asha Manpower" classified Nursing Homes is corrected to Other by the
\* staffing rule while "Seva Home" keeps its category.
C22_Witness ==
    /\ Reviewed
    /\ { "p1", "p3" } \subseteq DOMAIN results
    /\ raw_places["p1"].name = NameManpower
    /\ results["p1"].llm_category = "Nursing Homes"
    /\ results["p1"].category = "Other"
    /\ results["p1"].corrected
    /\ results["p1"].correction_reason[1] = "staffing/manpower reclassified"
    /\ results["p3"].category = results["p3"].llm_category
    /\ ~results["p3"].corrected

IsPHC(pid) == results[pid].llm_category = "Post-Hospital Care"

\* The rule k of RuleNames applies to the entry of pid.
Applies(k, pid) ==
    LET name_lower == Lower(raw_places[pid].name)
        active     == results[pid].llm_category # "Other"
    IN  CASE k = 1 -> IsPHC(pid) /\ Matches(addiction_patterns, Combined(pid))
          [] k = 2 -> /\ IsPHC(pid)
                      /\ Matches(psych_patterns, Combined(pid))
                      /\ ~Matches(post_hospital_signals, Combined(pid))
          [] k = 3 -> IsPHC(pid) /\ Matches(child_patterns, Combined(pid))
          [] k = 4 -> active /\ Matches(lab_patterns, name_lower)
          [] k = 5 -> /\ IsPHC(pid)
                      /\ Matches(physio_only_name, name_lower)
                      /\ ~Matches(physio_post_hospital_signals, Combined(pid))
          [] k = 6 -> active /\ Matches(staffing_patterns, Combined(pid))
          [] OTHER -> active /\ Matches(equip_patterns, name_lower)

Applicable(pid) == { k \in 1..Len(RuleNames) : Applies(k, pid) }

\* C23: the rules are tried in the order addiction, psychiatric,
\* pediatric disability, diagnostic/lab, pure physio, staffing, equipment;
\* the entry is corrected if and only if some rule applies, and the
\* reported reason is that of the first rule that applies, whatever later
\* rules apply too; the addiction rule is stopped by no genuine signal.
C23_FirstRuleWins ==
    Reviewed =>
      \A pid \in DOMAIN results :
        /\ results[pid].corrected <=> Applicable(pid) # {}
        /\ \A k \in Applicable(pid) :
              (\A j \in Applicable(pid) : k <= j) =>
                 /\ results[pid].category = "Other"
                 /\ results[pid].correction_reason[1] = RuleNames[k]
        /\ (/\ IsPHC(pid)
            /\ Matches(addiction_patterns, Combined(pid))
            /\ Matches(post_hospital_signals, Combined(pid))) =>
              /\ results[pid].category = "Other"
              /\ results[pid].correction_reason[1] = RuleNames[1]

\* "Asha Manpower" classified Post-Hospital Care, with detox and stroke in
\* its website text: the addiction rule and the staffing rule apply, the
\* genuine signal stroke is there, the reason is the addiction rule's.
C23_Witness ==
    /\ Reviewed
    /\ "p1" \in DOMAIN results
    /\ IsPHC("p1")
    /\ raw_places["p1"].name = NameManpower
    /\ crawl_data["p1"] = << "detox", "stroke" >>
    /\ Applicable("p1") = { 1, 6 }
    /\ results["p1"].category = "Other"
    /\ results["p1"].correction_reason[1] = "addiction rehab reclassified"

\* C24: on a Post-Hospital Care entry that the addiction rule leaves, the
\* psychiatric rule corrects to Other if and only if the combined text
\* matches a psychiatric pattern and none of the genuine post-hospital
\* signals; with both present the psychiatric rule does not correct it.
C24_PsychiatricConjunction ==
    Reviewed =>
      \A pid \in DOMAIN results :
        (IsPHC(pid) /\ ~Matches(addiction_patterns, Combined(pid))) =>
          LET by_psych == /\ results[pid].corrected
                          /\ results[pid].category = "Other"
                          /\ results[pid].correction_reason[1] = RuleNames[2]
          IN  by_psych <=> /\ Matches(psych_patterns, Combined(pid))
                           /\ ~Matches(post_hospital_signals, Combined(pid))

\* "Asha Home" classified Post-Hospital Care with psychiatric and stroke in
\* its website text keeps its category.
C24_Witness ==
    /\ Reviewed
    /\ "p1" \in DOMAIN results
    /\ IsPHC("p1")
    /\ raw_places["p1"].name = NameAsha
    /\ crawl_data["p1"] = << "psychiatric", "stroke" >>
    /\ results["p1"].category = "Post-Hospital Care"
    /\ ~results["p1"].corrected

\* C25: on a Post-Hospital Care entry that no earlier rule corrects, the
\* pure-physio rule corrects to Other with the reason "pure physio
\* reclassified" if and only if the name matches a physio or chiro
\* pattern and the combined text has none of the genuine post-hospital
\* signals; with such a signal anywhere in the combined text the rule
\* leaves the category.
C25_PurePhysio ==
    Reviewed =>
      \A pid \in DOMAIN results :
        (IsPHC(pid) /\ \A k \in 1..4 : ~Applies(k, pid)) =>
          LET by_physio == /\ results[pid].corrected
                           /\ results[pid].category = "Other"
                           /\ results[pid].correction_reason[1] = "pure physio reclassified"
          IN  /\ by_physio <=> /\ Matches(physio_only_name, Lower(raw_places[pid].name))
                               /\ ~Matches(physio_post_hospital_signals, Combined(pid))
              /\ (/\ Matches(physio_post_hospital_signals, Combined(pid))
                  /\ \A k \in 6..7 : ~Applies(k, pid)) =>
                    results[pid].category = "Post-Hospital Care"

\* "Asha Physio Rehab Clinic" classified Post-Hospital Care with no website
\* text is corrected to Other by the pure-physio rule.
C25_Witness ==
    /\ Reviewed
    /\ "p1" \in DOMAIN results
    /\ IsPHC("p1")
    /\ raw_places["p1"].name = NamePhysioRehabClinic
    /\ crawl_data["p1"] = <<>>
    /\ results["p1"].category = "Other"
    /\ results["p1"].correction_reason[1] = "pure physio reclassified"

\* ------------------------------------------- the search context, end to end

HitsOf(pid, cat) ==
    Cardinality({ k \in 1..Len(query_hits[pid]) : query_hits[pid][k] = cat })

\* C26: when two or more queries of one category returned a place, its
\* search-context list holds that category at least twice, and a place of
\* a generic primary type with no type mapping and no name rule, which
\* more queries of that category returned than of any other, is classified
\* into it.
C26_RepeatEvidenceReachesClassifier ==
    Classified =>
      \A pid \in DOMAIN raw_places :
        \A cat \in QueryCategories :
          (/\ HitsOf(pid, cat) >= 2
           /\ \A other \in QueryCategories \ { cat } : HitsOf(pid, other) < HitsOf(pid, cat)
           /\ raw_places[pid].primary_type \in GenericPrimaryTypes
           /\ NoTypeNoName(pid)) =>
             /\ Occurrences(pid, cat) >= 2
             /\ assigned_category[pid] = cat

\* ------------------------------------------ the survivors of both passes

\* C27: after both passes every Deduplicated record has a kept record of
\* its city whose (review_count, rating) score is at least its own, also
\* when the record that beat it in the domain pass was removed in the
\* name pass.
C27_DominatedBySurvivor ==
    Done =>
      \A pid \in PIDs :
        Deduplicated(pid) =>
          \E q \in PIDs \ { pid } :
            /\ Kept(q)
            /\ SameCity(q, pid)
            /\ ScoresAtLeast(q, pid)

\* The domain pass removed r in favour of a, the name pass removed a in
\* favour of b, and b is kept.
C27_Witness ==
    /\ Done
    /\ \E r, a, b \in PIDs :
          /\ r \in removed_domain
          /\ \E c \in domain_clusters : r \in c /\ c \ removed_domain = { a }
          /\ a \in removed_name
          /\ \E c \in name_clusters : a \in c /\ c \ removed_name = { b }
          /\ Deduplicated(r) /\ Deduplicated(a) /\ Kept(b)
          /\ ScoresAtLeast(b, r)

\* ------------------------------------------- failures across the runs

\* Pass 1 of the current run is over: the final save has been made.
Pass1Over == pc \in { "pass2", "pass3a", "pass3b", "mark", "done" }

\* The cache file holds the degraded entry of a failed call for pid.
FailureOnFile(pid) == Has(cache_file, pid) /\ IsSentinel(cache_file[pid])

\* C28: a failed classification is permanent across runs: the degraded
\* entry (Other, none, LLM error) of a failed call is in the cache file
\* once pass 1 is over, like the entry of a successful call, and no later
\* run calls the classifier for that record again: the record was sent to
\* the classifier once, and a later run classifies it Other from the
\* cached entry.
C28_FailureIsPermanent ==
    \A pid \in PIDs :
      /\ (Pass1Over /\ Has(cache, pid)) =>
            (Has(cache_file, pid) /\ cache_file[pid] = cache[pid])
      /\ FailureOnFile(pid) =>
            /\ llm_calls[pid] = 1
            /\ (pc = "pass1" /\ pid \in Range(stage1_filtered)) =>
                  (Has(cache, pid) /\ IsSentinel(cache[pid]))
            /\ (Pass1Over /\ Has(results, pid)) => results[pid].category = "Other"

\* The second run is complete: the failure of the first run is still the
\* entry of the record, which was sent to the classifier once, while
\* another record's successful answer is on file beside it.
C28_Witness ==
    /\ run = 2
    /\ Done
    /\ \E pid, q \in PIDs :
          /\ FailureOnFile(pid)
          /\ llm_calls[pid] = 1
          /\ Has(cache_file, q) /\ cache_file[q].llm_confidence = "high"
          /\ llm_calls[q] = 1
          /\ Has(results, pid) /\ results[pid].category = "Other"

\* ------------------------------------------- the keys of the two passes

\* The normalized name of the record is empty: its name holds no ASCII
\* letter and no digit.
EmptyName(pid) == Normalized(raw_places[pid].name) = <<>>

\* C29: the name pass does not skip the empty key: of two active records
\* of one city whose normalized names are both empty and that lie within
\* 200 m of each other, one is marked Deduplicated, and when both reach
\* the name pass they are in one cluster of one (name, city) group.
C29_EmptyNameIsAKey ==
    Done =>
      \A p, q \in PIDs :
        (/\ p # q
         /\ Active(p) /\ Active(q)
         /\ SameCity(p, q)
         /\ EmptyName(p) /\ EmptyName(q)
         /\ Near(p, q))
        => /\ Deduplicated(p) \/ Deduplicated(q)
           /\ ({ p, q } \cap removed_domain = {}) =>
                 \E c \in name_clusters : { p, q } \subseteq c

\* Two records named in Devanagari only, by different names and without
\* a website: the name pass put them in one cluster and removed one.
C29_Witness ==
    /\ Done
    /\ \E p, q \in PIDs :
          /\ raw_places[p].name = NameHindiAsha
          /\ raw_places[q].name = NameHindiSeva
          /\ raw_places[p].website = NoSite /\ raw_places[q].website = NoSite
          /\ SameCity(p, q) /\ Near(p, q)
          /\ \E c \in name_clusters : { p, q } \subseteq c
          /\ q \in removed_name
          /\ Kept(p) /\ Deduplicated(q)

\* The category the record had when it went into deduplication.
CategoryBeforeDedup(pid) ==
    IF Deduplicated(pid) THEN output_file[pid].category_before_dedup
    ELSE output_file[pid].category

\* Two active records of different categories and one city that share a
\* website domain or a normalized name and lie within 200 m of each other.
SameEntityAcrossCategories(p, q) ==
    /\ p # q
    /\ Active(p) /\ Active(q)
    /\ CategoryBeforeDedup(p) # CategoryBeforeDedup(q)
    /\ SameCity(p, q)
    /\ SameDomain(p, q) \/ SameNormName(p, q)
    /\ Near(p, q)

\* C30, as stated: of two active records of different active categories
\* and one city that share a website domain or a normalized name and lie
\* within 200 m of each other, exactly one is kept and the other is
\* marked Deduplicated.
C30_ExactlyOneOfThePairKept ==
    Done =>
      \A p, q \in PIDs :
        SameEntityAcrossCategories(p, q) =>
          \/ Kept(p) /\ Deduplicated(q)
          \/ Kept(q) /\ Deduplicated(p)

\* C30, amended: the passes ignore the category: of two such records at
\* most one is kept and at least one is marked Deduplicated, its category
\* losing that listing; when no third record is clustered with them
\* exactly one is kept, and when both are marked Deduplicated, a third
\* record of the city that scores at least as much as either is kept.
C30_CategoryIgnored ==
    Done =>
      \A p, q \in PIDs :
        SameEntityAcrossCategories(p, q) =>
          /\ ~(Kept(p) /\ Kept(q))
          /\ Deduplicated(p) \/ Deduplicated(q)
          /\ (\A c \in AllClusters : c \cap { p, q } # {} => c \subseteq { p, q }) =>
                (Kept(p) \/ Kept(q))
          /\ (Deduplicated(p) /\ Deduplicated(q)) =>
                \E r \in PIDs \ { p, q } :
                  /\ Kept(r)
                  /\ SameCity(r, p)
                  /\ ScoresAtLeast(r, p) /\ ScoresAtLeast(r, q)
          /\ Deduplicated(p) =>
                output_file[p].category_before_dedup \in ActiveCategories

\* A Nursing Homes record and an Elder Care record of one name, without
\* website: the Nursing Homes record is kept, the Elder Care record is
\* marked Deduplicated.
C30_Witness ==
    /\ Done
    /\ \E p, q \in PIDs :
          /\ SameEntityAcrossCategories(p, q)
          /\ ~SameDomain(p, q)
          /\ Kept(p) /\ output_file[p].category = "Nursing Homes"
          /\ Deduplicated(q) /\ output_file[q].category_before_dedup = "Elder Care"
          /\ q \in removed_name

====
